---- MODULE Spec2Model ----
(***************************************************************************)
(* Model of the keyboard layout editor: the editor state (AppState), the   *)
(* clipboard / undo handlers, the category manager, firmware generation    *)
(* from the editor, the tap-dance editor and the tap-dance documentation   *)
(* generator.                                                              *)
(*                                                                         *)
(* Rust Option<T> is modelled as an absent value or a T.  Vec<T> is a      *)
(* sequence; Rust indices are 0-based, so index i of the code is element   *)
(* i + 1 of the sequence.  status_message is not modelled (no property     *)
(* reads it); set_status is modelled by its other effect, clearing the     *)
(* error message.                                                          *)
(***************************************************************************)
EXTENDS Integers, Sequences, FiniteSets, TLC

\* Option<String>: None or the string.  Option<struct>: Nothing or the record.
\* Option<(usize, Position)>: NoSource or the pair.
None == "none"
Nothing == [nothing |-> TRUE]
NoSource == <<>>

\* ---------------------------------------------------------------- bounds
\* The cursor rows and columns explored: the code lets the cursor reach
\* row 3 and column 13; the model stops it at MaxRow and MaxCol.
MaxRow == 1
MaxCol == 2
\* The largest number of keys held in a multi-key selection.
MaxSelected == 2
\* The number of key presses explored from the initial state.
MaxSteps == 7
\* The largest number of messages in a validation report.
MaxMessages == 2
\* The largest number of tap dances in a loaded layout.
MaxTapDances == 2
\* The largest matrix size, and the largest matrix coordinate, of a geometry
\* under construction.
MaxMatrix == 2
\* The largest LED index of a key handed to add_key.
MaxLed == 1
\* The largest number of add_key calls on one geometry.
MaxKeys == 2
\* terminal events produced while run_tui loops
MaxEvents == 3
\* generation runs whose outputs are kept and compared
MaxOutputs == 2
\* Commands of the desktop shell in flight at once, and backend processes
\* it spawns in one run.
MaxCalls == 2
MaxSpawns == 2

\* ------------------------------------------------------------- constants
NavRowLimit == 3
NavColLimit == 13
U8Max == 255

Min(a, b) == IF a < b THEN a ELSE b

\* ------------------------------------------------------------ data model
\* A String of the tap-dance editor is the sequence of its characters;
\* Option<String> is <<>> for None and <<s>> for Some(s).
NoString == <<>>
Some(str) == <<str>>

TapDanceAction(name, single_tap, double_tap, hold) ==
    [name |-> name, single_tap |-> single_tap, double_tap |-> double_tap,
     hold |-> hold]

Position(row, col) == <<row, col>>

ClipboardContent(keycode, color_override, category_id) ==
    [keycode |-> keycode, color_override |-> color_override,
     category_id |-> category_id]

KeyDefinition(position, keycode, color_override, category_id) ==
    [position |-> position, keycode |-> keycode,
     color_override |-> color_override, category_id |-> category_id]

Category(id, name, color) == [id |-> id, name |-> name, color |-> color]

\* The content of a key, as the copy/cut/paste handlers capture it.
ContentOf(key) ==
    ClipboardContent(key.keycode, key.color_override, key.category_id)

\* layer.keys.iter().find(|k| k.position == pos): the index of the first
\* key at pos, 0 when there is none.
FindKey(keys, pos) ==
    LET hits == {i \in 1..Len(keys) : keys[i].position = pos}
    IN IF hits = {} THEN 0 ELSE CHOOSE i \in hits : \A j \in hits : i <= j

\* layout.layers.get(idx)
HasLayer(layout_, idx) == idx >= 0 /\ idx < Len(layout_.layers)
LayerAt(layout_, idx) == layout_.layers[idx + 1]

\* The key at pos of layer idx, Nothing when the layer or the key is missing.
KeyAt(layout_, idx, pos) ==
    IF ~HasLayer(layout_, idx) THEN Nothing
    ELSE LET keys == LayerAt(layout_, idx).keys
             i == FindKey(keys, pos)
         IN IF i = 0 THEN Nothing ELSE keys[i]

\* Overwrite keycode, color override and category of the first key at pos of
\* layer idx (the "if let Some(layer) ... if let Some(key) ..." blocks).
WriteKey(layout_, idx, pos, content) ==
    IF ~HasLayer(layout_, idx) THEN layout_
    ELSE LET keys == LayerAt(layout_, idx).keys
             i == FindKey(keys, pos)
         IN IF i = 0 THEN layout_
            ELSE [layout_ EXCEPT !.layers[idx + 1].keys[i] =
                     KeyDefinition(pos, content.keycode,
                                   content.color_override, content.category_id)]

\* The transparent key a cleared cut source becomes.
Transparent == ClipboardContent("KC_TRNS", None, None)

\* ---------------------------------------------------------------- state
VARIABLES
    layout,            \* AppState.layout: categories and layers
    geometry,          \* AppState.geometry
    mapping,           \* AppState.mapping
    dirty,             \* AppState.dirty
    current_layer,     \* AppState.current_layer
    selected_position, \* AppState.selected_position
    selection_mode,    \* AppState.selection_mode
    selected_keys,     \* AppState.selected_keys
    clipboard,         \* AppState.clipboard
    active_popup,      \* AppState.active_popup
    manager,           \* AppState.category_manager_state
    error_message,     \* AppState.error_message
    app_exit,          \* None while run_tui loops, else how it returned
    report,            \* the validation report of the last Ctrl+G
    generator_calls,   \* the calls of FirmwareGenerator::generate so far
    editor,            \* the TapDanceEditor component
    docs,              \* the last output of generate_tap_dance_docs
    docs_calls,        \* how many times generate_tap_dance_docs has run
    color_picker_context, \* what the colour picker was opened for
    inspected,         \* the last output of `inspect --section tap-dances`
    session,           \* run_layout_picker_terminal: where it stands
    run_loop,          \* run_tui: where the loop stands, the terminal events
                       \* waiting to be read and how many were produced
    build_state,       \* AppState.build_state
    keymap,            \* the keymap arrays of the last generation, one for
                       \* each layer
    artifacts,         \* the outputs of the generation runs so far, each
                       \* with the inputs it was generated from
    cli,               \* a run of the command-line interface
    backend,           \* the desktop shell: its BackendState and processes
    layout_file,       \* the layout file as last loaded or written
    source_path,       \* AppState.source_path
    build_log_state,   \* AppState.build_log_state
    action,            \* the handler that ran last, the layer it worked on
                       \* and whether it changed the layout
    pastes_pending,    \* pastes that saved an undo snapshot, less the undos
                       \* that restored one
    steps              \* the number of key presses handled so far

vars == <<layout, geometry, mapping, dirty, current_layer, selected_position,
          selection_mode, selected_keys, clipboard, active_popup, manager,
          error_message, app_exit, report, generator_calls, editor, docs,
          docs_calls, color_picker_context, inspected, session, run_loop,
          build_state, keymap, artifacts, cli, backend, layout_file, source_path,
          build_log_state, action, pastes_pending,
          steps>>

firmware_vars == <<app_exit, report, generator_calls>>
tap_dance_vars == <<editor, docs, docs_calls>>
cli_vars == <<cli>>
backend_vars == <<backend>>
file_vars == <<layout_file, source_path>>
build_vars == <<build_log_state>>
system_vars == <<cli_vars, backend_vars, file_vars, build_vars>>
other_vars == <<color_picker_context, inspected, session, run_loop,
                build_state, keymap, artifacts, system_vars>>

\* ------------------------------------------------------ keyboard geometry
\* KeyGeometry::new: layout_index defaults to the LED index
KeyGeometry(matrix_position, led_index, visual_x, visual_y) ==
    [matrix_position |-> matrix_position, led_index |-> led_index,
     layout_index |-> led_index, visual_x |-> visual_x, visual_y |-> visual_y]

\* KeyboardGeometry::new: no keys yet
KeyboardGeometry(matrix_rows, matrix_cols) ==
    [matrix_rows |-> matrix_rows, matrix_cols |-> matrix_cols, keys |-> <<>>]

\* KeyboardGeometry::add_key
add_key(geometry_, key) == [geometry_ EXCEPT !.keys = Append(@, key)]

\* The layout files the picker can hand back.
Paths == {"split.md", "ortho.md"}

\* How far loading a selected layout gets: the first step that fails, or
\* "run" when the editor main loop is entered.
LoadOutcomes ==
    {"load", "variant", "geometry", "terminal", "app_state", "adjust", "run"}

\* run_layout_picker_terminal, after setup_terminal and LayoutPicker::new
NewSession ==
    [stage |-> "picker", terminal |-> "raw", selected |-> None,
     outcome |-> None, app_state |-> FALSE, tui_runs |-> 0, result |-> None]

\* ---------------------------------------------------- visual layout mapping
\* The order of the keys of one visual row that ignores everything but
\* visual_x.
SortsBeforeByX(keys, i, j) == keys[i].visual_x < keys[j].visual_x

\* The order of the keys of one visual row: visual_x ascending, ties broken
\* by matrix position (row, then col); keys equal in all three stay in the
\* order of the key array.
SortsBefore(keys, i, j) ==
    LET a == keys[i]
        b == keys[j]
    IN  \/ a.visual_x < b.visual_x
        \/ /\ a.visual_x = b.visual_x
           /\ \/ a.matrix_position[1] < b.matrix_position[1]
              \/ /\ a.matrix_position[1] = b.matrix_position[1]
                 /\ \/ a.matrix_position[2] < b.matrix_position[2]
                    \/ /\ a.matrix_position[2] = b.matrix_position[2]
                       /\ i < j

\* The logical Position given to the i-th key: rows follow ascending
\* visual_y (visual_y counted in steps of the clustering tolerance, so the
\* keys of one row are those with the same value), columns the order of
\* the row.
position_of(keys, i) ==
    LET n == Len(keys)
        row == Cardinality({keys[j].visual_y : j \in 1..n}
                             \cap 0..(keys[i].visual_y - 1))
        col == Cardinality({j \in 1..n :
                              /\ keys[j].visual_y = keys[i].visual_y
                              /\ SortsBefore(keys, j, i)})
    IN  <<row, col>>

\* The table built once for a geometry, in both directions; a later entry
\* for the same position or the same key replaces the earlier one.
VisualLayoutMapping(geometry_) ==
    LET keys == geometry_.keys
        n == Len(keys)
        last(S) == CHOOSE i \in S : \A j \in S : j <= i
    IN  [to_key |->
            [pos \in {position_of(keys, i) : i \in 1..n} |->
                keys[last({i \in 1..n : position_of(keys, i) = pos})]],
         to_position |->
            [k \in {keys[i] : i \in 1..n} |->
                position_of(keys, last({i \in 1..n : keys[i] = k}))]]

\* mapping.resolve(pos): the key at a position, if any
resolve(mapping_, pos) ==
    IF pos \in DOMAIN mapping_.to_key THEN mapping_.to_key[pos] ELSE Nothing

\* mapping.position_for(key)
position_for(mapping_, key) == mapping_.to_position[key]

\* ------------------------------------------------------------ command line
\* ExitCode, as_i32
ExitCode == [Success |-> 0, ValidationError |-> 1, IoError |-> 2]

\* No command has run yet.
NoCommand ==
    [command |-> None, value |-> None, load |-> None, json |-> FALSE,
     exit_code |-> ExitCode.Success, message |-> None,
     layout_loaded |-> FALSE, printed |-> FALSE]

\* ------------------------------------------------------- desktop shell
Calls == 1..MaxCalls

\* What a command returns: Result<String, String>, Result<bool, String>
\* or Result<Option<String>, String>.
NoReply == [ok |-> TRUE, message |-> None, running |-> FALSE, url |-> None]

\* AppState::default, with the commands the frontend has invoked, the
\* processes the shell has spawned that still run, and the window.
\* rivals is history: the start_backend calls that waited for the lock at
\* the last spawn, with no stop_backend since.
NewBackend ==
    [handle |-> <<>>, lock |-> 0,
     pc |-> [c \in Calls |-> "idle"], command |-> [c \in Calls |-> None],
     child |-> 0, spawned |-> 0, processes |-> {}, reply |-> NoReply,
     rivals |-> {}, closed |-> FALSE, exited |-> FALSE]

\* run_tui as it is entered: about to draw, no terminal event waiting
NewLoop == [pc |-> "draw", events |-> <<>>, produced |-> 0]

\* ----------------------------------------------------------- the fixture
InitialCategories ==
    << Category("nav", "Navigation", "blue"),
       Category("sym", "Symbols", "green") >>

InitialLayers ==
    << [number |-> 0, category_id |-> None,
        keys |-> << KeyDefinition(Position(0, 0), "KC_A", None, "nav"),
                    KeyDefinition(Position(0, 1), "KC_B", "red", "sym"),
                    KeyDefinition(Position(1, 0), "KC_TRNS", None, None),
                    KeyDefinition(Position(1, 1), "KC_TRNS", None, None) >>],
       [number |-> 1, category_id |-> "sym",
        keys |-> << KeyDefinition(Position(0, 0), "KC_A", None, "nav"),
                    KeyDefinition(Position(0, 1), "KC_B", "red", "sym") >>] >>

InitialLayout ==
    [categories |-> InitialCategories, layers |-> InitialLayers,
     tap_dances |-> <<>>]

\* A 2x2 board: the visual positions that resolve to a physical key.
InitialGeometry ==
    [matrix_rows |-> 2, matrix_cols |-> 2,
     keys |-> << KeyGeometry(<<0, 0>>, 0, 0, 0), KeyGeometry(<<0, 1>>, 1, 1, 0),
                 KeyGeometry(<<1, 0>>, 2, 0, 1), KeyGeometry(<<1, 1>>, 3, 1, 1) >>]
InitialMapping == VisualLayoutMapping(InitialGeometry)

\* mapping.is_valid_position(pos)
is_valid_position(mapping_, pos) == pos \in DOMAIN mapping_.to_key

\* TapDanceEditor::new: the list starts as a copy of the layout's tap
\* dances, with the first one selected.  list_state.selected() is the
\* selected index, -1 standing for None.
NewTapDanceEditor(layout_) ==
    [mode |-> "Select",
     selected |-> IF layout_.tap_dances /= <<>> THEN 0 ELSE -1,
     tap_dances |-> layout_.tap_dances,
     editing |-> Nothing,
     edit_field |-> "Name",
     input_buffer |-> <<>>,
     status |-> "Select a tap dance or press 'n' to create new"]

\* KeyClipboard::new()
EmptyClipboard ==
    [content |-> Nothing, cut_source |-> NoSource, multi_content |-> Nothing,
     multi_cut_sources |-> <<>>, undo |-> Nothing]

\* CategoryManagerState::new() / reset()
ManagerReset ==
    [mode |-> "Browsing", selected |-> 0, category_id |-> None,
     input |-> <<>>]

\* The state AppState::new builds around a loaded layout, with the
\* tap-dance editor opened on it.
InitAt(loaded, geometry_, mapping_, path) ==
    /\ layout = loaded
    /\ geometry = geometry_
    /\ mapping = mapping_
    /\ dirty = FALSE
    /\ current_layer = 0
    /\ selected_position = Position(0, 0)
    /\ selection_mode = None
    /\ selected_keys = <<>>
    /\ clipboard = EmptyClipboard
    /\ active_popup = None
    /\ manager = ManagerReset
    /\ error_message = None
    /\ app_exit = None
    /\ report = <<>>
    /\ generator_calls = 0
    /\ editor = NewTapDanceEditor(loaded)
    /\ docs = <<>>
    /\ docs_calls = 0
    /\ color_picker_context = None
    /\ inspected = <<>>
    /\ session = NewSession
    /\ run_loop = NewLoop
    /\ build_state = Nothing
    /\ keymap = <<>>
    /\ artifacts = <<>>
    /\ cli = NoCommand
    /\ backend = NewBackend
    /\ layout_file = loaded
    /\ source_path = path
    /\ build_log_state = [visible |-> FALSE]
    /\ action = <<"init", 0, FALSE>>
    /\ pastes_pending = 0
    /\ steps = 0

InitOn(loaded, geometry_, mapping_) ==
    InitAt(loaded, geometry_, mapping_, "layout.md")

InitWith(loaded) == InitOn(loaded, InitialGeometry, InitialMapping)

Init == InitWith(InitialLayout)


\* ------------------------------------------------------------- AppState
\* AppState::get_selected_key / get_selected_key_mut
get_selected_key == KeyAt(layout, current_layer, selected_position)

\* One key press is handled: run_tui reads one event per iteration, until a
\* handler makes it return.
Tick == app_exit = None /\ steps < MaxSteps /\ steps' = steps + 1

\* AppState::set_error
set_error(msg) == error_message' = msg

\* AppState::set_status clears the error; AppState::clear_error
clear_error == error_message' = None

\* ------------------------------------------------------------ clipboard
\* KeyClipboard::has_content
has_content(cb) == cb.content /= Nothing \/ cb.multi_content /= Nothing

\* KeyClipboard::is_multi
is_multi(cb) == cb.multi_content /= Nothing

\* KeyClipboard::copy: one key, no cut source
copy(cb, content) ==
    [cb EXCEPT !.content = content, !.cut_source = NoSource,
               !.multi_content = Nothing, !.multi_cut_sources = <<>>]

\* KeyClipboard::cut: one key, remembering where it was cut from
cut(cb, content, layer_index, position) ==
    [cb EXCEPT !.content = content, !.cut_source = <<layer_index, position>>,
               !.multi_content = Nothing, !.multi_cut_sources = <<>>]

\* KeyClipboard::copy_multi
copy_multi(cb, keys, anchor) ==
    [cb EXCEPT !.content = Nothing, !.cut_source = NoSource,
               !.multi_content = [keys |-> keys, anchor |-> anchor],
               !.multi_cut_sources = <<>>]

\* KeyClipboard::cut_multi: every selected position becomes a cut source
cut_multi(cb, keys, anchor, layer_index, positions) ==
    [cb EXCEPT !.content = Nothing, !.cut_source = NoSource,
               !.multi_content = [keys |-> keys, anchor |-> anchor],
               !.multi_cut_sources =
                   [i \in 1..Len(positions) |-> <<layer_index, positions[i]>>]]

\* KeyClipboard::clear_cut_source
clear_cut_source(cb) ==
    [cb EXCEPT !.cut_source = NoSource, !.multi_cut_sources = <<>>]

\* KeyClipboard::save_undo: the one snapshot slot is overwritten
save_undo(cb, layer_index, original_keys) ==
    [cb EXCEPT !.undo =
        [layer_index |-> layer_index, original_keys |-> original_keys]]

\* KeyClipboard::take_undo
take_undo(cb) == [cb EXCEPT !.undo = Nothing]

\* ----------------------------------------------------------- navigation
\* handle_main_input, arrow keys and h/j/k/l
MoveUp ==
    /\ active_popup = None
    /\ IF selected_position[1] > 0
       THEN /\ selected_position' =
                  Position(selected_position[1] - 1, selected_position[2])
            /\ clear_error
       ELSE UNCHANGED <<selected_position, error_message>>
    /\ action' = <<"move", current_layer, FALSE>>
    /\ UNCHANGED pastes_pending
    /\ Tick
    /\ UNCHANGED <<firmware_vars, tap_dance_vars, other_vars>>
    /\ UNCHANGED <<layout, geometry, mapping, dirty, current_layer,
                   selection_mode, selected_keys, clipboard, active_popup,
                   manager>>

MoveDown ==
    /\ active_popup = None
    /\ IF selected_position[1] < Min(NavRowLimit, MaxRow)
       THEN /\ selected_position' =
                  Position(selected_position[1] + 1, selected_position[2])
            /\ clear_error
       ELSE UNCHANGED <<selected_position, error_message>>
    /\ action' = <<"move", current_layer, FALSE>>
    /\ UNCHANGED pastes_pending
    /\ Tick
    /\ UNCHANGED <<firmware_vars, tap_dance_vars, other_vars>>
    /\ UNCHANGED <<layout, geometry, mapping, dirty, current_layer,
                   selection_mode, selected_keys, clipboard, active_popup,
                   manager>>

MoveLeft ==
    /\ active_popup = None
    /\ IF selected_position[2] > 0
       THEN /\ selected_position' =
                  Position(selected_position[1], selected_position[2] - 1)
            /\ clear_error
       ELSE UNCHANGED <<selected_position, error_message>>
    /\ action' = <<"move", current_layer, FALSE>>
    /\ UNCHANGED pastes_pending
    /\ Tick
    /\ UNCHANGED <<firmware_vars, tap_dance_vars, other_vars>>
    /\ UNCHANGED <<layout, geometry, mapping, dirty, current_layer,
                   selection_mode, selected_keys, clipboard, active_popup,
                   manager>>

MoveRight ==
    /\ active_popup = None
    /\ IF selected_position[2] < Min(NavColLimit, MaxCol)
       THEN /\ selected_position' =
                  Position(selected_position[1], selected_position[2] + 1)
            /\ clear_error
       ELSE UNCHANGED <<selected_position, error_message>>
    /\ action' = <<"move", current_layer, FALSE>>
    /\ UNCHANGED pastes_pending
    /\ Tick
    /\ UNCHANGED <<firmware_vars, tap_dance_vars, other_vars>>
    /\ UNCHANGED <<layout, geometry, mapping, dirty, current_layer,
                   selection_mode, selected_keys, clipboard, active_popup,
                   manager>>

\* handle_main_input, Shift+Tab
PreviousLayer ==
    /\ active_popup = None
    /\ IF current_layer > 0
       THEN /\ current_layer' = current_layer - 1
            /\ clear_error
       ELSE UNCHANGED <<current_layer, error_message>>
    /\ action' = <<"layer", current_layer', FALSE>>
    /\ UNCHANGED pastes_pending
    /\ Tick
    /\ UNCHANGED <<firmware_vars, tap_dance_vars, other_vars>>
    /\ UNCHANGED <<layout, geometry, mapping, dirty, selected_position,
                   selection_mode, selected_keys, clipboard, active_popup,
                   manager>>

\* usize subtraction where overflow checks are off: below zero it wraps to
\* the top of usize, which is beyond the integers of the checker; the
\* largest of these stands for it, every index of the model being below.
wrapping_sub(a, b) == IF a >= b THEN a - b ELSE 2147483647

\* handle_main_input, Tab: `layers.len() - 1` with no layers panics in a
\* build with overflow checks and wraps in one without
NextLayer ==
    /\ active_popup = None
    /\ \E overflow_checks \in BOOLEAN :
          IF Len(layout.layers) = 0 /\ overflow_checks
          THEN /\ app_exit' = "panic"
               /\ UNCHANGED <<current_layer, error_message>>
          ELSE /\ IF current_layer < wrapping_sub(Len(layout.layers), 1)
                  THEN /\ current_layer' = current_layer + 1
                       /\ clear_error
                  ELSE UNCHANGED <<current_layer, error_message>>
               /\ UNCHANGED app_exit
    /\ action' = <<"layer", current_layer', FALSE>>
    /\ UNCHANGED pastes_pending
    /\ Tick
    /\ UNCHANGED <<report, generator_calls, tap_dance_vars, other_vars>>
    /\ UNCHANGED <<layout, geometry, mapping, dirty, selected_position,
                   selection_mode, selected_keys, clipboard, active_popup,
                   manager>>

\* ------------------------------------------------------------ selection
\* handle_toggle_selection_mode
ToggleSelectionMode ==
    /\ active_popup = None
    /\ IF selection_mode /= None
       THEN /\ selection_mode' = None
            /\ selected_keys' = <<>>
       ELSE /\ selection_mode' = "Normal"
            /\ selected_keys' = <<selected_position>>
    /\ clear_error
    /\ action' = <<"select", current_layer, FALSE>>
    /\ UNCHANGED pastes_pending
    /\ Tick
    /\ UNCHANGED <<firmware_vars, tap_dance_vars, other_vars>>
    /\ UNCHANGED <<layout, geometry, mapping, dirty, current_layer,
                   selected_position, clipboard, active_popup, manager>>

\* selected_keys.remove(idx)
RemoveAt(seq, idx) ==
    [i \in 1..(Len(seq) - 1) |-> IF i < idx THEN seq[i] ELSE seq[i + 1]]

\* handle_toggle_current_key; the selection is kept within MaxSelected keys
ToggleCurrentKey ==
    /\ active_popup = None
    /\ IF selection_mode /= None
       THEN LET hits == {i \in 1..Len(selected_keys) :
                             selected_keys[i] = selected_position}
            IN IF hits /= {}
               THEN /\ selected_keys' =
                         RemoveAt(selected_keys,
                                  CHOOSE i \in hits : \A j \in hits : i <= j)
                    /\ clear_error
               ELSE /\ Len(selected_keys) < MaxSelected
                    /\ selected_keys' = Append(selected_keys, selected_position)
                    /\ clear_error
       ELSE UNCHANGED <<selected_keys, error_message>>
    /\ action' = <<"select", current_layer, FALSE>>
    /\ UNCHANGED pastes_pending
    /\ Tick
    /\ UNCHANGED <<firmware_vars, tap_dance_vars, other_vars>>
    /\ UNCHANGED <<layout, geometry, mapping, dirty, current_layer,
                   selected_position, selection_mode, clipboard, active_popup,
                   manager>>

\* ------------------------------------------------------- copy and cut
\* The "for pos in &state.selected_keys" loop of copy and cut: the content
\* of every selected position that has a key on the layer.
RECURSIVE CollectKeys(_, _, _)
CollectKeys(layout_, layer, positions) ==
    IF positions = <<>> THEN <<>>
    ELSE LET pos == Head(positions)
             key == KeyAt(layout_, layer, pos)
             rest == CollectKeys(layout_, layer, Tail(positions))
         IN IF key = Nothing THEN rest
            ELSE << <<pos, ContentOf(key)>> >> \o rest

\* handle_copy_key
CopyKey ==
    /\ active_popup = None
    /\ IF selection_mode /= None /\ selected_keys /= <<>>
       THEN /\ clipboard' =
                  copy_multi(clipboard,
                             CollectKeys(layout, current_layer, selected_keys),
                             selected_keys[1])
            /\ selection_mode' = None
            /\ selected_keys' = <<>>
            /\ clear_error
       ELSE IF get_selected_key /= Nothing
       THEN /\ clipboard' = copy(clipboard, ContentOf(get_selected_key))
            /\ clear_error
            /\ UNCHANGED <<selection_mode, selected_keys>>
       ELSE /\ set_error("No key to copy")
            /\ UNCHANGED <<clipboard, selection_mode, selected_keys>>
    /\ action' = <<"copy", current_layer, FALSE>>
    /\ UNCHANGED pastes_pending
    /\ Tick
    /\ UNCHANGED <<firmware_vars, tap_dance_vars, other_vars>>
    /\ UNCHANGED <<layout, geometry, mapping, dirty, current_layer,
                   selected_position, active_popup, manager>>

\* handle_cut_key
CutKey ==
    /\ active_popup = None
    /\ IF selection_mode /= None /\ selected_keys /= <<>>
       THEN /\ clipboard' =
                  cut_multi(clipboard,
                            CollectKeys(layout, current_layer, selected_keys),
                            selected_keys[1], current_layer, selected_keys)
            /\ selection_mode' = None
            /\ selected_keys' = <<>>
            /\ clear_error
       ELSE IF get_selected_key /= Nothing
       THEN /\ clipboard' = cut(clipboard, ContentOf(get_selected_key),
                                current_layer, selected_position)
            /\ clear_error
            /\ UNCHANGED <<selection_mode, selected_keys>>
       ELSE /\ set_error("No key to cut")
            /\ UNCHANGED <<clipboard, selection_mode, selected_keys>>
    /\ action' = <<"cut", current_layer, FALSE>>
    /\ UNCHANGED pastes_pending
    /\ Tick
    /\ UNCHANGED <<firmware_vars, tap_dance_vars, other_vars>>
    /\ UNCHANGED <<layout, geometry, mapping, dirty, current_layer,
                   selected_position, active_popup, manager>>

\* A paste set that keeps the copied positions instead of re-basing them.
PasteTargetsInPlace(keys, row_offset, col_offset, mapping_) ==
    SelectSeq(keys, LAMBDA k : is_valid_position(mapping_, k[1]))

\* ---------------------------------------------------------------- paste
\* The loop that re-bases every clipboard position by the offset from the
\* anchor to the cursor and keeps the ones that fit in u8 and are valid.
RECURSIVE PasteTargets(_, _, _, _)
PasteTargets(keys, row_offset, col_offset, mapping_) ==
    IF keys = <<>> THEN <<>>
    ELSE LET pos == Head(keys)[1]
             content == Head(keys)[2]
             target_row == pos[1] + row_offset
             target_col == pos[2] + col_offset
             rest == PasteTargets(Tail(keys), row_offset, col_offset, mapping_)
         IN IF /\ target_row >= 0
               /\ target_col >= 0
               /\ target_row <= U8Max
               /\ target_col <= U8Max
               /\ is_valid_position(mapping_, Position(target_row, target_col))
            THEN << <<Position(target_row, target_col), content>> >> \o rest
            ELSE rest

\* The same loop's undo_keys: the prior content of every target position
\* that has a key on the layer.
RECURSIVE UndoKeys(_, _, _)
UndoKeys(layout_, layer, targets) ==
    IF targets = <<>> THEN <<>>
    ELSE LET pos == Head(targets)[1]
             key == KeyAt(layout_, layer, pos)
             rest == UndoKeys(layout_, layer, Tail(targets))
         IN IF key = Nothing THEN rest
            ELSE << <<pos, ContentOf(key)>> >> \o rest

\* "Apply pastes": write every target, in order.
RECURSIVE ApplyPastes(_, _, _)
ApplyPastes(layout_, layer, targets) ==
    IF targets = <<>> THEN layout_
    ELSE ApplyPastes(WriteKey(layout_, layer, Head(targets)[1], Head(targets)[2]),
                     layer, Tail(targets))

\* "Clear cut sources": every cut source becomes the transparent key.
RECURSIVE ClearCutSources(_, _)
ClearCutSources(layout_, cut_sources) ==
    IF cut_sources = <<>> THEN layout_
    ELSE ClearCutSources(WriteKey(layout_, Head(cut_sources)[1],
                                  Head(cut_sources)[2], Transparent),
                         Tail(cut_sources))

\* The paste set of a multi-key paste at the cursor.
CurrentPasteTargets ==
    LET multi == clipboard.multi_content
    IN PasteTargets(multi.keys,
                    selected_position[1] - multi.anchor[1],
                    selected_position[2] - multi.anchor[2],
                    mapping)

\* A multi-key paste that clears the cut sources before it knows whether
\* any target position is valid.
PasteMultiClearsEarly ==
    LET paste_targets == CurrentPasteTargets
    IN /\ layout' =
             ClearCutSources(
                 ApplyPastes(layout, current_layer, paste_targets),
                 clipboard.multi_cut_sources)
       /\ IF paste_targets = <<>>
          THEN /\ set_error("No valid positions for paste")
               /\ clipboard' = clear_cut_source(clipboard)
               /\ UNCHANGED dirty
          ELSE /\ clipboard' =
                     clear_cut_source(
                         save_undo(clipboard, current_layer,
                                   UndoKeys(layout, current_layer,
                                            paste_targets)))
               /\ dirty' = TRUE
               /\ clear_error

\* handle_paste_key, multi-key branch
PasteMulti ==
    LET paste_targets == CurrentPasteTargets
    IN IF paste_targets = <<>>
       THEN /\ set_error("No valid positions for paste")
            /\ UNCHANGED <<layout, clipboard, dirty>>
       ELSE /\ layout' =
                  ClearCutSources(
                      ApplyPastes(layout, current_layer, paste_targets),
                      clipboard.multi_cut_sources)
            /\ clipboard' =
                  clear_cut_source(
                      save_undo(clipboard, current_layer,
                                UndoKeys(layout, current_layer, paste_targets)))
            /\ dirty' = TRUE
            /\ clear_error

\* handle_paste_key, single-key branch
PasteSingle ==
    LET content == clipboard.content
        cut_source == clipboard.cut_source
        key == get_selected_key
        saved == IF key /= Nothing
                 THEN save_undo(clipboard, current_layer,
                                << <<selected_position, ContentOf(key)>> >>)
                 ELSE clipboard
        pasted == WriteKey(layout, current_layer, selected_position, content)
    IN /\ layout' = IF cut_source /= NoSource
                    THEN WriteKey(pasted, cut_source[1], cut_source[2],
                                  Transparent)
                    ELSE pasted
       /\ clipboard' = IF cut_source /= NoSource
                       THEN clear_cut_source(saved) ELSE saved
       /\ dirty' = IF key /= Nothing THEN TRUE ELSE dirty
       /\ error_message' = IF key /= Nothing THEN None ELSE error_message

\* The paste reaches a save_undo call: a multi-key paste with a non-empty
\* paste set, or a single-key paste onto an existing key.
SavesUndo ==
    /\ has_content(clipboard)
    /\ IF is_multi(clipboard) THEN CurrentPasteTargets /= <<>>
       ELSE clipboard.content /= Nothing /\ get_selected_key /= Nothing

\* handle_paste_key
PasteKey ==
    /\ active_popup = None
    /\ IF ~has_content(clipboard)
       THEN /\ set_error("Nothing to paste")
            /\ UNCHANGED <<layout, clipboard, dirty>>
       ELSE IF is_multi(clipboard) THEN PasteMulti
       ELSE IF clipboard.content /= Nothing THEN PasteSingle
       ELSE /\ set_error("Nothing in clipboard")
            /\ UNCHANGED <<layout, clipboard, dirty>>
    /\ action' = <<"paste", current_layer, layout' /= layout>>
    /\ pastes_pending' = IF SavesUndo THEN pastes_pending + 1
                         ELSE pastes_pending
    /\ Tick
    /\ UNCHANGED <<firmware_vars, tap_dance_vars, other_vars>>
    /\ UNCHANGED <<geometry, mapping, current_layer, selected_position,
                   selection_mode, selected_keys, active_popup, manager>>

\* ----------------------------------------------------------------- undo
\* "Restore original keys": write every saved key back on the saved layer.
RECURSIVE RestoreKeys(_, _, _)
RestoreKeys(layout_, layer_idx, original_keys) ==
    IF original_keys = <<>> THEN layout_
    ELSE RestoreKeys(WriteKey(layout_, layer_idx, Head(original_keys)[1],
                              Head(original_keys)[2]),
                     layer_idx, Tail(original_keys))

\* An undo that restores the keys and leaves the snapshot in the clipboard.
UndoPasteKeepsSnapshot ==
    /\ active_popup = None
    /\ IF clipboard.undo /= Nothing
       THEN /\ layout' = RestoreKeys(layout, clipboard.undo.layer_index,
                                     clipboard.undo.original_keys)
            /\ clipboard' = clipboard
            /\ dirty' = TRUE
            /\ clear_error
       ELSE /\ set_error("Nothing to undo")
            /\ UNCHANGED <<layout, clipboard, dirty>>
    /\ action' = <<"undo",
                   IF clipboard.undo /= Nothing
                   THEN clipboard.undo.layer_index ELSE current_layer,
                   layout' /= layout>>
    /\ pastes_pending' = IF clipboard.undo /= Nothing
                         THEN pastes_pending - 1 ELSE pastes_pending
    /\ Tick
    /\ UNCHANGED <<firmware_vars, tap_dance_vars, other_vars>>
    /\ UNCHANGED <<geometry, mapping, current_layer, selected_position,
                   selection_mode, selected_keys, active_popup, manager>>

\* An undo that restores the keys on the layer the editor is showing.
UndoPasteOnCurrentLayer ==
    /\ active_popup = None
    /\ IF clipboard.undo /= Nothing
       THEN /\ layout' = RestoreKeys(layout, current_layer,
                                     clipboard.undo.original_keys)
            /\ clipboard' = take_undo(clipboard)
            /\ dirty' = TRUE
            /\ clear_error
       ELSE /\ set_error("Nothing to undo")
            /\ UNCHANGED <<layout, clipboard, dirty>>
    /\ action' = <<"undo",
                   IF clipboard.undo /= Nothing
                   THEN clipboard.undo.layer_index ELSE current_layer,
                   layout' /= layout>>
    /\ pastes_pending' = IF clipboard.undo /= Nothing
                         THEN pastes_pending - 1 ELSE pastes_pending
    /\ Tick
    /\ UNCHANGED <<firmware_vars, tap_dance_vars, other_vars>>
    /\ UNCHANGED <<geometry, mapping, current_layer, selected_position,
                   selection_mode, selected_keys, active_popup, manager>>

\* handle_undo_paste
UndoPaste ==
    /\ active_popup = None
    /\ IF clipboard.undo /= Nothing
       THEN /\ layout' = RestoreKeys(layout, clipboard.undo.layer_index,
                                     clipboard.undo.original_keys)
            /\ clipboard' = take_undo(clipboard)
            /\ dirty' = TRUE
            /\ clear_error
       ELSE /\ set_error("Nothing to undo")
            /\ UNCHANGED <<layout, clipboard, dirty>>
    /\ action' = <<"undo",
                   IF clipboard.undo /= Nothing
                   THEN clipboard.undo.layer_index ELSE current_layer,
                   layout' /= layout>>
    /\ pastes_pending' = IF clipboard.undo /= Nothing
                         THEN pastes_pending - 1 ELSE pastes_pending
    /\ Tick
    /\ UNCHANGED <<firmware_vars, tap_dance_vars, other_vars>>
    /\ UNCHANGED <<geometry, mapping, current_layer, selected_position,
                   selection_mode, selected_keys, active_popup, manager>>

\* ----------------------------------------------------- category manager
\* handle_main_input, Ctrl+T
OpenCategoryManager ==
    /\ active_popup = None
    /\ manager' = ManagerReset
    /\ active_popup' = "CategoryManager"
    /\ clear_error
    /\ action' = <<"manager", current_layer, FALSE>>
    /\ UNCHANGED pastes_pending
    /\ Tick
    /\ UNCHANGED <<firmware_vars, tap_dance_vars, other_vars>>
    /\ UNCHANGED <<layout, geometry, mapping, dirty, current_layer,
                   selected_position, selection_mode, selected_keys, clipboard>>

\* CategoryManagerState::cancel
cancel(manager_) ==
    [manager_ EXCEPT !.mode = "Browsing", !.category_id = None,
                     !.input = <<>>]

\* CategoryManagerState::select_previous / select_next
select_previous(manager_, count) ==
    IF count = 0 THEN manager_
    ELSE [manager_ EXCEPT !.selected =
             IF manager_.selected > 0 THEN manager_.selected - 1 ELSE count - 1]

select_next(manager_, count) ==
    IF count = 0 THEN manager_
    ELSE [manager_ EXCEPT !.selected = (manager_.selected + 1) % count]

\* CategoryManagerState::start_deleting
start_deleting(manager_, category) ==
    [manager_ EXCEPT !.mode = "ConfirmingDelete", !.category_id = category.id]

\* layout.categories.get(selected_idx)
HasCategoryAt(layout_, idx) == idx >= 0 /\ idx < Len(layout_.categories)

\* handle_category_manager_input, Browsing: Esc
ManagerClose ==
    /\ active_popup = "CategoryManager"
    /\ manager.mode = "Browsing"
    /\ active_popup' = None
    /\ clear_error
    /\ action' = <<"manager", current_layer, FALSE>>
    /\ UNCHANGED pastes_pending
    /\ Tick
    /\ UNCHANGED <<firmware_vars, tap_dance_vars, other_vars>>
    /\ UNCHANGED <<layout, geometry, mapping, dirty, current_layer,
                   selected_position, selection_mode, selected_keys, clipboard,
                   manager>>

\* handle_category_manager_input, Browsing: Up and Down
ManagerSelect ==
    /\ active_popup = "CategoryManager"
    /\ manager.mode = "Browsing"
    /\ \/ manager' = select_previous(manager, Len(layout.categories))
       \/ manager' = select_next(manager, Len(layout.categories))
    /\ action' = <<"manager", current_layer, FALSE>>
    /\ UNCHANGED pastes_pending
    /\ Tick
    /\ UNCHANGED <<firmware_vars, tap_dance_vars, other_vars>>
    /\ UNCHANGED <<layout, geometry, mapping, dirty, current_layer,
                   selected_position, selection_mode, selected_keys, clipboard,
                   active_popup, error_message>>

\* handle_category_manager_input, Browsing: 'd'
ManagerStartDelete ==
    /\ active_popup = "CategoryManager"
    /\ manager.mode = "Browsing"
    /\ IF HasCategoryAt(layout, manager.selected)
       THEN /\ manager' =
                  start_deleting(manager, layout.categories[manager.selected + 1])
            /\ clear_error
       ELSE /\ set_error("No category selected")
            /\ UNCHANGED manager
    /\ action' = <<"manager", current_layer, FALSE>>
    /\ UNCHANGED pastes_pending
    /\ Tick
    /\ UNCHANGED <<firmware_vars, tap_dance_vars, other_vars>>
    /\ UNCHANGED <<layout, geometry, mapping, dirty, current_layer,
                   selected_position, selection_mode, selected_keys, clipboard,
                   active_popup>>

\* handle_category_manager_input, Browsing: Shift+L
ManagerAssignLayer ==
    /\ active_popup = "CategoryManager"
    /\ manager.mode = "Browsing"
    /\ IF HasCategoryAt(layout, manager.selected)
       THEN IF HasLayer(layout, current_layer)
            THEN /\ layout' =
                       [layout EXCEPT !.layers[current_layer + 1].category_id =
                            layout.categories[manager.selected + 1].id]
                 /\ dirty' = TRUE
                 /\ clear_error
            ELSE UNCHANGED <<layout, dirty, error_message>>
       ELSE /\ set_error("No category selected")
            /\ UNCHANGED <<layout, dirty>>
    /\ action' = <<"assign", current_layer, layout' /= layout>>
    /\ UNCHANGED pastes_pending
    /\ Tick
    /\ UNCHANGED <<firmware_vars, tap_dance_vars, other_vars>>
    /\ UNCHANGED <<geometry, mapping, current_layer, selected_position,
                   selection_mode, selected_keys, clipboard, active_popup,
                   manager>>

\* layout.categories.retain(|c| c.id != category_id)
RetainOthers(categories, category_id) ==
    SelectSeq(categories, LAMBDA c : c.id /= category_id)

\* A sweep that leaves the keys' references in place.
SweepKeySkipped(key, category_id) == key

\* "Clean up references": the sweep over every layer and every key
SweepKey(key, category_id) ==
    IF key.category_id = category_id
    THEN [key EXCEPT !.category_id = None] ELSE key

SweepLayer(layer, category_id) ==
    [layer EXCEPT
        !.category_id = IF @ = category_id THEN None ELSE @,
        !.keys = [i \in 1..Len(layer.keys) |->
                      SweepKey(layer.keys[i], category_id)]]

SweepLayers(layers, category_id) ==
    [i \in 1..Len(layers) |-> SweepLayer(layers[i], category_id)]

\* handle_category_manager_input, ConfirmingDelete: 'y' / 'Y'
ManagerConfirmDelete ==
    /\ active_popup = "CategoryManager"
    /\ manager.mode = "ConfirmingDelete"
    /\ LET category_id == manager.category_id
           categories == RetainOthers(layout.categories, category_id)
       IN /\ layout' = [layout EXCEPT
                            !.categories = categories,
                            !.layers = SweepLayers(layout.layers, category_id)]
          /\ manager' =
                [cancel(manager) EXCEPT !.selected =
                    IF manager.selected >= Len(categories) /\ manager.selected > 0
                    THEN manager.selected - 1 ELSE manager.selected]
    /\ dirty' = TRUE
    /\ clear_error
    /\ action' = <<"delete", current_layer, layout' /= layout>>
    /\ UNCHANGED pastes_pending
    /\ Tick
    /\ UNCHANGED <<firmware_vars, tap_dance_vars, other_vars>>
    /\ UNCHANGED <<geometry, mapping, current_layer, selected_position,
                   selection_mode, selected_keys, clipboard, active_popup>>

\* handle_category_manager_input, ConfirmingDelete: 'n' / 'N' / Esc
ManagerCancelDelete ==
    /\ active_popup = "CategoryManager"
    /\ manager.mode = "ConfirmingDelete"
    /\ manager' = cancel(manager)
    /\ clear_error
    /\ action' = <<"manager", current_layer, FALSE>>
    /\ UNCHANGED pastes_pending
    /\ Tick
    /\ UNCHANGED <<firmware_vars, tap_dance_vars, other_vars>>
    /\ UNCHANGED <<layout, geometry, mapping, dirty, current_layer,
                   selected_position, selection_mode, selected_keys, clipboard,
                   active_popup>>

\* ----------------------------------------------- category manager: create
\* The characters a key press can type into the manager's name input.
NameChars == {"A", "a", " "}

\* A lowercasing that keeps every character as typed.
to_lowercase_kept(c) == c

\* char::to_lowercase, over NameChars
to_lowercase(c) == IF c = "A" THEN "a" ELSE c

\* str::replace(' ', "-"), for one character
replace_space(c) == IF c = " " THEN "-" ELSE c

\* input.to_lowercase().replace(' ', "-"): the id derived from a name
RECURSIVE derive_id(_)
derive_id(input) ==
    IF input = <<>> THEN ""
    ELSE replace_space(to_lowercase(Head(input))) \o derive_id(Tail(input))

\* The modes of the manager's text-input arm
TextInputModes == {"CreatingName", "Renaming"}

\* CategoryManagerState::start_creating
start_creating(manager_) ==
    [manager_ EXCEPT !.mode = "CreatingName", !.input = <<>>]

\* What the manager's keys other than the confirming Enter leave alone.
ManagerFrame ==
    /\ action' = <<"manager", current_layer, FALSE>>
    /\ Tick
    /\ UNCHANGED <<layout, geometry, mapping, dirty, current_layer,
                   selected_position, selection_mode, selected_keys, clipboard,
                   active_popup, pastes_pending, firmware_vars, tap_dance_vars,
                   other_vars>>

\* handle_category_manager_input, Browsing: 'n'
ManagerStartCreate ==
    /\ active_popup = "CategoryManager"
    /\ manager.mode = "Browsing"
    /\ manager' = start_creating(manager)
    /\ clear_error
    /\ ManagerFrame

\* handle_category_manager_input, CreatingName | Renaming: a character key
ManagerType ==
    /\ active_popup = "CategoryManager"
    /\ manager.mode \in TextInputModes
    /\ \E c \in NameChars : manager' = [manager EXCEPT !.input = Append(@, c)]
    /\ UNCHANGED error_message
    /\ ManagerFrame

\* handle_category_manager_input, CreatingName | Renaming: Backspace
ManagerBackspace ==
    /\ active_popup = "CategoryManager"
    /\ manager.mode \in TextInputModes
    /\ manager' = [manager EXCEPT
                      !.input = IF @ = <<>> THEN <<>>
                                ELSE SubSeq(@, 1, Len(@) - 1)]
    /\ UNCHANGED error_message
    /\ ManagerFrame

\* handle_category_manager_input, CreatingName | Renaming: Esc
ManagerCancelInput ==
    /\ active_popup = "CategoryManager"
    /\ manager.mode \in TextInputModes
    /\ manager' = cancel(manager)
    /\ clear_error
    /\ ManagerFrame

\* handle_category_manager_input, CreatingName: Enter.  A name whose id is
\* taken is refused; any other name moves on to the colour picker.
ManagerConfirmName ==
    /\ active_popup = "CategoryManager"
    /\ manager.mode = "CreatingName"
    /\ LET id == derive_id(manager.input)
       IN IF \E i \in 1..Len(layout.categories) : layout.categories[i].id = id
          THEN /\ set_error("Category with this ID already exists")
               /\ UNCHANGED <<manager, color_picker_context, active_popup>>
          ELSE /\ manager' = [manager EXCEPT !.mode = "CreatingColor"]
               /\ color_picker_context' = "Category"
               /\ active_popup' = "ColorPicker"
               /\ clear_error
    /\ action' = <<"create", current_layer, FALSE>>
    /\ Tick
    /\ UNCHANGED <<layout, geometry, mapping, dirty, current_layer,
                   selected_position, selection_mode, selected_keys, clipboard,
                   pastes_pending, firmware_vars, tap_dance_vars, inspected,
                   session, run_loop, build_state,
                   keymap, artifacts, system_vars>>

\* input.to_string(): the typed characters as one string
RECURSIVE to_string(_)
to_string(input) ==
    IF input = <<>> THEN ""
    ELSE Head(input) \o to_string(Tail(input))

\* The inputs a name of the model can be typed as.
NameInputs == UNION {[1..n -> NameChars] : n \in 0..MaxSteps}

\* The characters of a name, as an input buffer holds them.
chars(name) == CHOOSE input \in NameInputs : to_string(input) = name

\* CategoryManagerState::start_renaming: the input starts as the name
start_renaming(manager_, category) ==
    [manager_ EXCEPT !.mode = "Renaming", !.category_id = category.id,
                     !.input = chars(category.name)]

\* Category::set_name, when it accepts the name
set_name(category, name) == [category EXCEPT !.name = name]

\* categories.iter_mut().find(|c| &c.id == category_id): the index of the
\* first category of that id, 0 when there is none.
FindCategory(categories, category_id) ==
    IF \E i \in 1..Len(categories) : categories[i].id = category_id
    THEN CHOOSE i \in 1..Len(categories) :
            /\ categories[i].id = category_id
            /\ \A j \in 1..(i - 1) : categories[j].id /= category_id
    ELSE 0

\* handle_category_manager_input, Browsing: 'r'
ManagerStartRename ==
    /\ active_popup = "CategoryManager"
    /\ manager.mode = "Browsing"
    /\ IF HasCategoryAt(layout, manager.selected)
       THEN /\ manager' =
                  start_renaming(manager, layout.categories[manager.selected + 1])
            /\ clear_error
       ELSE /\ set_error("No category selected")
            /\ UNCHANGED manager
    /\ ManagerFrame

\* A rename whose refused name closes the input and marks the layout.
ManagerConfirmRenameClosing ==
    /\ active_popup = "CategoryManager"
    /\ manager.mode = "Renaming"
    /\ LET i == FindCategory(layout.categories, manager.category_id)
       IN IF i = 0
          THEN UNCHANGED <<layout, dirty, manager, error_message>>
          ELSE \E accepted \in BOOLEAN :
                  /\ IF accepted
                     THEN /\ layout' = [layout EXCEPT !.categories[i] =
                                           set_name(@, to_string(manager.input))]
                          /\ clear_error
                     ELSE /\ set_error("Invalid name")
                          /\ UNCHANGED layout
                  /\ dirty' = TRUE
                  /\ manager' = cancel(manager)
    /\ action' = <<"rename", current_layer, layout' /= layout>>
    /\ Tick
    /\ UNCHANGED <<geometry, mapping, current_layer, selected_position,
                   selection_mode, selected_keys, clipboard, active_popup,
                   pastes_pending, firmware_vars, tap_dance_vars, other_vars>>

\* handle_category_manager_input, Renaming: Enter.  set_name either stores
\* the name or refuses it; a refusal returns at once, before mark_dirty and
\* cancel.  Which names it refuses is not fixed here: either outcome is
\* taken for every name.
ManagerConfirmRename ==
    /\ active_popup = "CategoryManager"
    /\ manager.mode = "Renaming"
    /\ LET i == FindCategory(layout.categories, manager.category_id)
       IN IF i = 0
          THEN UNCHANGED <<layout, dirty, manager, error_message>>
          ELSE \E accepted \in BOOLEAN :
                  IF accepted
                  THEN /\ layout' = [layout EXCEPT !.categories[i] =
                                        set_name(@, to_string(manager.input))]
                       /\ dirty' = TRUE
                       /\ manager' = cancel(manager)
                       /\ clear_error
                  ELSE /\ set_error("Invalid name")
                       /\ UNCHANGED <<layout, dirty, manager>>
    /\ action' = <<"rename", current_layer, layout' /= layout>>
    /\ Tick
    /\ UNCHANGED <<geometry, mapping, current_layer, selected_position,
                   selection_mode, selected_keys, clipboard, active_popup,
                   pastes_pending, firmware_vars, tap_dance_vars, other_vars>>

\* -------------------------------------------------- firmware generation
\* The severities of the messages of a validation report.
Severities == {"error", "warning"}

\* The reports FirmwareValidator::validate may return: up to MaxMessages
\* messages, each an error or a warning.
Reports == UNION {[1..n -> Severities] : n \in 0..MaxMessages}

\* ValidationReport::is_valid: no message of error severity
is_valid(report_) == \A i \in 1..Len(report_) : report_[i] /= "error"

\* handle_firmware_generation, when validator.validate() returns Err: the
\* `?` hands the error to run_tui, which returns it.
GenerateValidatorFails ==
    /\ active_popup = None
    /\ clear_error
    /\ app_exit' = "error"
    /\ action' = <<"generate", current_layer, FALSE>>
    /\ steps < MaxSteps /\ app_exit = None /\ steps' = steps + 1
    /\ UNCHANGED <<layout, geometry, mapping, dirty, current_layer,
                   selected_position, selection_mode, selected_keys, clipboard,
                   active_popup, manager, report, generator_calls,
                   pastes_pending, tap_dance_vars, other_vars>>

\* A handler that runs the generator whatever the report says.
GenerateFirmwareUnchecked ==
    /\ active_popup = None
    /\ \E validated \in Reports, generated \in {"ok", "err"} :
          /\ report' = validated
          /\ generator_calls' = generator_calls + 1
          /\ IF generated = "ok" THEN clear_error
             ELSE set_error("Generation failed")
    /\ action' = <<"generate", current_layer, FALSE>>
    /\ steps < MaxSteps /\ app_exit = None /\ steps' = steps + 1
    /\ UNCHANGED <<layout, geometry, mapping, dirty, current_layer,
                   selected_position, selection_mode, selected_keys, clipboard,
                   active_popup, manager, app_exit, pastes_pending,
                   tap_dance_vars, other_vars>>

\* A handler that marks the layout dirty once the generator has run.
GenerateFirmwareMarksDirty ==
    /\ active_popup = None
    /\ \E validated \in Reports, generated \in {"ok", "err"} :
          /\ report' = validated
          /\ IF ~is_valid(validated)
             THEN /\ generated = "ok"
                  /\ set_error("Validation failed")
                  /\ UNCHANGED <<generator_calls, dirty>>
             ELSE /\ generator_calls' = generator_calls + 1
                  /\ dirty' = TRUE
                  /\ IF generated = "ok" THEN clear_error
                     ELSE set_error("Generation failed")
    /\ action' = <<"generate", current_layer, FALSE>>
    /\ steps < MaxSteps /\ app_exit = None /\ steps' = steps + 1
    /\ UNCHANGED <<layout, geometry, mapping, current_layer,
                   selected_position, selection_mode, selected_keys, clipboard,
                   active_popup, manager, app_exit, pastes_pending,
                   tap_dance_vars, other_vars>>

\* handle_firmware_generation, when the validator returns a report: the
\* generator runs only for a valid report, and may itself fail.
GenerateFirmware ==
    /\ active_popup = None
    /\ \E validated \in Reports, generated \in {"ok", "err"} :
          /\ report' = validated
          /\ IF ~is_valid(validated)
             THEN /\ generated = "ok"
                  /\ set_error("Validation failed")
                  /\ UNCHANGED generator_calls
             ELSE /\ generator_calls' = generator_calls + 1
                  /\ IF generated = "ok" THEN clear_error
                     ELSE set_error("Generation failed")
    /\ action' = <<"generate", current_layer, FALSE>>
    /\ steps < MaxSteps /\ app_exit = None /\ steps' = steps + 1
    /\ UNCHANGED <<layout, geometry, mapping, dirty, current_layer,
                   selected_position, selection_mode, selected_keys, clipboard,
                   active_popup, manager, app_exit, pastes_pending,
                   tap_dance_vars, other_vars>>

\* The layer a layer-switch code of the fixture names, -1 for a code that
\* switches no layer.
layer_switch_target(keycode) ==
    CASE keycode = "MO(1)" -> 1
      [] keycode = "MO(2)" -> 2
      [] keycode = "LT(2,KC_A)" -> 2
      [] OTHER -> -1

\* A validator that checks positions only.
validate_firmware_positions(layout_, mapping_) ==
    LET line(l) ==
            LET keys == layout_.layers[l].keys
                bad == SelectSeq(keys,
                    LAMBDA key : ~is_valid_position(mapping_, key.position))
            IN  [i \in 1..Len(bad) |->
                    [severity |-> "error", check |-> "positions",
                     layer |-> l - 1, position |-> bad[i].position]]
        RECURSIVE from(_)
        from(l) == IF l > Len(layout_.layers) THEN <<>>
                   ELSE line(l) \o from(l + 1)
    IN  from(1)

\* FirmwareValidator::validate, the position check and the layer-reference
\* check: a message of error severity, located at the key, for every key
\* whose position the mapping rejects and for every layer-switch code whose
\* target is not below the layer count.  The other checks add messages and
\* take none away.
validate_firmware(layout_, mapping_) ==
    LET line(l) ==
            LET keys == layout_.layers[l].keys
                bad == SelectSeq(keys,
                    LAMBDA key : layer_switch_target(key.keycode)
                                     >= Len(layout_.layers))
            IN  [i \in 1..Len(bad) |->
                    [severity |-> "error", check |-> "layer_refs",
                     layer |-> l - 1, position |-> bad[i].position]]
        RECURSIVE from(_)
        from(l) == IF l > Len(layout_.layers) THEN <<>>
                   ELSE line(l) \o from(l + 1)
    IN  validate_firmware_positions(layout_, mapping_) \o from(1)

\* handle_firmware_generation with the validator's own report: the
\* generator runs only when the report holds no error, and may itself fail.
GenerateValidated ==
    /\ active_popup = None
    /\ LET messages == validate_firmware(layout, mapping)
       IN  /\ report' = [i \in 1..Len(messages) |-> messages[i].severity]
           /\ IF ~is_valid(report')
              THEN /\ set_error("Validation failed")
                   /\ UNCHANGED generator_calls
              ELSE /\ generator_calls' = generator_calls + 1
                   /\ \E generated \in {"ok", "err"} :
                         IF generated = "ok" THEN clear_error
                         ELSE set_error("Generation failed")
    /\ action' = <<"validate", current_layer, FALSE>>
    /\ Tick
    /\ UNCHANGED <<layout, geometry, mapping, dirty, current_layer,
                   selected_position, selection_mode, selected_keys, clipboard,
                   active_popup, manager, app_exit, pastes_pending,
                   tap_dance_vars, other_vars>>

\* The keys of a geometry in the order of the key array.
InArrayOrder(geometry_) == geometry_.keys

\* The keys of a geometry in ascending layout_index, keys of one index in
\* the order of the key array.
ByLayoutIndex(geometry_) ==
    LET keys == geometry_.keys
        n == Len(keys)
        rank(j) == Cardinality(
            {m \in 1..n :
                \/ keys[m].layout_index < keys[j].layout_index
                \/ /\ keys[m].layout_index = keys[j].layout_index
                   /\ m < j}) + 1
    IN  [i \in 1..n |-> keys[CHOOSE j \in 1..n : rank(j) = i]]

\* The keymap array of one layer: for each physical key, the keycode of the
\* KeyDefinition at the key's logical position, the transparent code when
\* there is none.
keymap_array(layer, geometry_, mapping_) ==
    LET ordered == ByLayoutIndex(geometry_)
    IN  [i \in 1..Len(ordered) |->
            LET found == FindKey(layer.keys,
                                 position_for(mapping_, ordered[i]))
            IN  IF found = 0 THEN Transparent.keycode
                ELSE layer.keys[found].keycode]

\* FirmwareGenerator::generate: the keymap arrays, layer by layer
GenerateKeymap ==
    /\ active_popup = None
    /\ keymap' = [l \in 1..Len(layout.layers) |->
                     keymap_array(layout.layers[l], geometry, mapping)]
    /\ action' = <<"generate_keymap", current_layer, FALSE>>
    /\ Tick
    /\ UNCHANGED <<layout, geometry, mapping, dirty, current_layer,
                   selected_position, selection_mode, selected_keys, clipboard,
                   active_popup, manager, error_message, pastes_pending,
                   firmware_vars, tap_dance_vars, color_picker_context,
                   inspected, session, run_loop, build_state,
                   artifacts, system_vars>>

\* ---------------------------------------------------- tap-dance editor
\* The characters a key press can type into the editor's input buffer.
Chars == {"a", "_", "-"}

\* char::is_ascii_alphanumeric, over Chars
is_ascii_alphanumeric(c) == c \in {"a"}

\* TapDanceAction::validate: a tap dance needs a single-tap code
validate(td) == td.single_tap /= <<>>

\* The editor's fields other than `editor`, which no editor key changes.
TapDanceFrame(key) ==
    /\ action' = <<key, current_layer, FALSE>>
    /\ Tick
    /\ UNCHANGED <<layout, geometry, mapping, dirty, current_layer,
                   selected_position, selection_mode, selected_keys, clipboard,
                   active_popup, manager, error_message, pastes_pending,
                   firmware_vars, docs, docs_calls, other_vars>>

\* handle_select_mode: Up / 'k'
TapDanceSelectUp ==
    /\ editor.mode = "Select"
    /\ editor' = IF editor.selected > 0
                 THEN [editor EXCEPT !.selected = @ - 1] ELSE editor
    /\ TapDanceFrame("td_up")

\* handle_select_mode: Down / 'j'
TapDanceSelectDown ==
    /\ editor.mode = "Select"
    /\ editor' = IF /\ editor.selected /= -1
                    /\ editor.selected < Len(editor.tap_dances) - 1
                 THEN [editor EXCEPT !.selected = @ + 1] ELSE editor
    /\ TapDanceFrame("td_down")

\* handle_select_mode: 'n' starts a new tap dance on the Name field
TapDanceStartNew ==
    /\ editor.mode = "Select"
    /\ editor' = [editor EXCEPT
                    !.mode = "Edit",
                    !.editing = TapDanceAction(<<>>, <<>>, NoString, NoString),
                    !.edit_field = "Name",
                    !.input_buffer = <<>>,
                    !.status = "Enter tap dance name (alphanumeric + underscore)"]
    /\ TapDanceFrame("td_new")

\* handle_edit_mode: a character key without modifiers
TapDanceType ==
    /\ editor.mode = "Edit"
    /\ \E c \in Chars :
          editor' = [editor EXCEPT !.input_buffer = Append(@, c)]
    /\ TapDanceFrame("td_type")

\* handle_edit_mode: Backspace; String::pop on an empty buffer does nothing
TapDanceBackspace ==
    /\ editor.mode = "Edit"
    /\ editor' = [editor EXCEPT
                    !.input_buffer = IF @ = <<>> THEN <<>>
                                     ELSE SubSeq(@, 1, Len(@) - 1)]
    /\ TapDanceFrame("td_backspace")

\* An Enter on the Name field that takes whatever was typed.
EnterNameUnchecked(ed) ==
    [ed EXCEPT
        !.editing.name = ed.input_buffer,
        !.edit_field = "SingleTap",
        !.input_buffer = <<>>,
        !.status = "Enter single tap keycode (required)"]

\* handle_edit_mode: Enter on the Name field
EnterName(ed) ==
    IF ed.input_buffer = <<>>
    THEN [ed EXCEPT !.status = "Error: Name cannot be empty"]
    ELSE IF ~(\A i \in 1..Len(ed.input_buffer) :
                 is_ascii_alphanumeric(ed.input_buffer[i])
                     \/ ed.input_buffer[i] = "_")
    THEN [ed EXCEPT
            !.status = "Error: Name must be alphanumeric with underscores only"]
    ELSE [ed EXCEPT
            !.editing.name = ed.input_buffer,
            !.edit_field = "SingleTap",
            !.input_buffer = <<>>,
            !.status = "Enter single tap keycode (required)"]

\* handle_edit_mode: Enter on the SingleTap field
EnterSingleTap(ed) ==
    IF ed.input_buffer = <<>>
    THEN [ed EXCEPT !.status = "Error: Single tap keycode cannot be empty"]
    ELSE [ed EXCEPT
            !.editing.single_tap = ed.input_buffer,
            !.edit_field = "DoubleTap",
            !.input_buffer = <<>>,
            !.status = "Enter double tap keycode (optional, Enter to skip)"]

\* handle_edit_mode: Enter on the DoubleTap field
EnterDoubleTap(ed) ==
    [ed EXCEPT
        !.editing.double_tap = IF ed.input_buffer /= <<>>
                               THEN Some(ed.input_buffer) ELSE @,
        !.edit_field = "Hold",
        !.input_buffer = <<>>,
        !.status = "Enter hold keycode (optional, Enter to finish)"]

\* handle_edit_mode: Enter on the Hold field validates the tap dance, adds
\* it to the list and selects it
EnterHold(ed) ==
    LET td == [ed.editing EXCEPT
                  !.hold = IF ed.input_buffer /= <<>>
                           THEN Some(ed.input_buffer) ELSE @]
    IN IF ~validate(td)
       THEN [ed EXCEPT !.editing = td, !.status = "Validation error"]
       ELSE [ed EXCEPT
               !.tap_dances = Append(@, td),
               !.mode = "Select",
               !.editing = Nothing,
               !.input_buffer = <<>>,
               !.status = "Created tap dance",
               !.selected = Len(ed.tap_dances)]

\* handle_edit_mode: Enter applies the current field and moves to the next
TapDanceEnter ==
    /\ editor.mode = "Edit"
    /\ editor' = IF editor.editing = Nothing THEN editor
                 ELSE CASE editor.edit_field = "Name" -> EnterName(editor)
                        [] editor.edit_field = "SingleTap" ->
                               EnterSingleTap(editor)
                        [] editor.edit_field = "DoubleTap" ->
                               EnterDoubleTap(editor)
                        [] editor.edit_field = "Hold" -> EnterHold(editor)
    /\ TapDanceFrame("td_enter")

\* handle_edit_mode: Esc cancels the edit
TapDanceEscape ==
    /\ editor.mode = "Edit"
    /\ editor' = [editor EXCEPT
                    !.mode = "Select",
                    !.editing = Nothing,
                    !.input_buffer = <<>>,
                    !.status = "Editing cancelled"]
    /\ TapDanceFrame("td_escape")

\* ------------------------------------------------- tap-dance documentation
\* The keycode database: the display name of each keycode it knows.
KeycodeNames == [keycode \in {<<"a">>} |-> "A"]

\* The keycodes of the fixture that are tap-dance references: those that
\* start with "TD(" and end with ")".
is_tap_dance_reference(keycode) == keycode \in {"TD(a)", "TD(_)"}

\* format_keycode: "CODE (Display Name)" for a known keycode, else "CODE"
format_keycode(keycode, keycode_db) ==
    IF keycode \in DOMAIN keycode_db
    THEN <<keycode, keycode_db[keycode]>> ELSE <<keycode>>

\* Headings that number the tap dances from 1.
TapDanceLinesFromOne(tap_dances, index, keycode_db) ==
    [i \in 1..Len(tap_dances) |-> <<"### TD", i, tap_dances[i].name>>]

\* generate_tap_dance_docs, the loop over layout.tap_dances.iter()
\* .enumerate() from `index` on: each line is a tuple of the text's parts.
RECURSIVE TapDanceLines(_, _, _)
TapDanceLines(tap_dances, index, keycode_db) ==
    IF index >= Len(tap_dances) THEN <<>>
    ELSE LET tap_dance == tap_dances[index + 1]
         IN << <<"### TD", index, tap_dance.name>>,
               <<"- **Single Tap:**",
                 format_keycode(tap_dance.single_tap, keycode_db)>> >>
            \o (IF tap_dance.double_tap /= NoString
                THEN << <<"- **Double Tap:**",
                          format_keycode(tap_dance.double_tap[1], keycode_db)>> >>
                ELSE <<>>)
            \o (IF tap_dance.hold /= NoString
                THEN << <<"- **Hold:**",
                          format_keycode(tap_dance.hold[1], keycode_db)>> >>
                ELSE <<>>)
            \o << <<"">> >>
            \o TapDanceLines(tap_dances, index + 1, keycode_db)

\* generate_tap_dance_docs, the scan of one layer's keys for TD() references
LayerReferences(layer) ==
    LET refs == SelectSeq(layer.keys,
                          LAMBDA key : is_tap_dance_reference(key.keycode))
    IN [i \in 1..Len(refs) |->
           <<"- Layer", layer.number, refs[i].position[1],
             refs[i].position[2], refs[i].keycode>>]

\* generate_tap_dance_docs, the scan of all layers from layer `from` on
RECURSIVE KeyReferences(_, _)
KeyReferences(layers, from) ==
    IF from > Len(layers) THEN <<>>
    ELSE LayerReferences(layers[from]) \o KeyReferences(layers, from + 1)

generate_tap_dance_docs(layout_, keycode_db) ==
    IF layout_.tap_dances = <<>> THEN <<>>
    ELSE LET key_references == KeyReferences(layout_.layers, 1)
         IN << <<"## Tap Dance Actions">>, <<"">> >>
            \o TapDanceLines(layout_.tap_dances, 0, keycode_db)
            \o (IF key_references /= <<>>
                THEN << <<"**Keys Using Tap Dance:**">> >> \o key_references
                ELSE <<>>)

\* An export of the layout's tap-dance documentation
GenerateTapDanceDocs ==
    /\ docs' = generate_tap_dance_docs(layout, KeycodeNames)
    /\ docs_calls' = docs_calls + 1
    /\ action' = <<"docs", current_layer, FALSE>>
    /\ Tick
    /\ UNCHANGED <<layout, geometry, mapping, dirty, current_layer,
                   selected_position, selection_mode, selected_keys, clipboard,
                   active_popup, manager, error_message, pastes_pending,
                   firmware_vars, editor, other_vars>>

\* ------------------------------------------------------ generated output
\* The times a generation may run at.
Timestamps == {"2025-01-16T10:30:45Z", "2025-01-17T08:00:00Z"}

\* The generated firmware source: the timestamp comment, then one line for
\* each layer's keymap array.
firmware_source(layout_, geometry_, mapping_, now) ==
    << <<"// Generated at:", now>> >>
    \o [l \in 1..Len(layout_.layers) |->
           <<"keymap", layout_.layers[l].number,
             keymap_array(layout_.layers[l], geometry_, mapping_)>>]

\* A normalisation that leaves the timestamp lines as they are.
normalize_line_kept(line) == line

\* normalize_output, one line: a line that contains "Generated at:" or
\* "Last modified:" becomes the fixed timestamp comment.  The lines of the
\* generators end in no whitespace and hold neither a UUID nor an absolute
\* path, so trim_end, replace_uuids and replace_absolute_paths return any
\* other line as it is.
normalize_line(line) ==
    IF line[1] \in {"// Generated at:", "// Last modified:"}
    THEN <<"// Generated at: <TIMESTAMP>">>
    ELSE line

\* normalize_output: content.lines().map(...).collect().join("\n")
normalize_output(content) ==
    [i \in 1..Len(content) |-> normalize_line(content[i])]

\* One generation run at the time `now`: the firmware source and the
\* tap-dance documentation, kept with the inputs they were generated from.
GenerateOutputs ==
    /\ active_popup = None
    /\ Len(artifacts) < MaxOutputs
    /\ \E now \in Timestamps :
          artifacts' = Append(artifacts,
              [layout |-> layout, geometry |-> geometry, mapping |-> mapping,
               source |-> firmware_source(layout, geometry, mapping, now),
               docs |-> generate_tap_dance_docs(layout, KeycodeNames)])
    /\ action' = <<"generate_outputs", current_layer, FALSE>>
    /\ Tick
    /\ UNCHANGED <<layout, geometry, mapping, dirty, current_layer,
                   selected_position, selection_mode, selected_keys, clipboard,
                   active_popup, manager, error_message, pastes_pending,
                   firmware_vars, tap_dance_vars, color_picker_context,
                   inspected, session, run_loop, build_state, keymap,
                   system_vars>>

\* -------------------------------------------------------------- inspect
\* A two-way-first reading of the kind: a double tap hides the hold.
td_type_double_first(td) ==
    IF td.double_tap /= NoString THEN "two_way"
    ELSE IF td.hold /= NoString THEN "three_way"
    ELSE "single"

\* InspectArgs::execute, "tap-dances": the td_type of one tap dance
td_type(td) ==
    IF td.hold /= NoString THEN "three_way"
    ELSE IF td.double_tap /= NoString THEN "two_way"
    ELSE "single"

\* InspectArgs::execute, "tap-dances": the TapDanceInfo of every tap dance
TapDanceInfos(layout_) ==
    [i \in 1..Len(layout_.tap_dances) |->
        [name |-> layout_.tap_dances[i].name,
         single_tap |-> layout_.tap_dances[i].single_tap,
         double_tap |-> layout_.tap_dances[i].double_tap,
         hold |-> layout_.tap_dances[i].hold,
         td_type |-> td_type(layout_.tap_dances[i])]]

\* `inspect --section tap-dances` on the layout
InspectTapDances ==
    /\ inspected' = TapDanceInfos(layout)
    /\ action' = <<"inspect", current_layer, FALSE>>
    /\ Tick
    /\ UNCHANGED <<layout, geometry, mapping, dirty, current_layer,
                   selected_position, selection_mode, selected_keys, clipboard,
                   active_popup, manager, error_message, pastes_pending,
                   firmware_vars, tap_dance_vars, color_picker_context,
                   session, run_loop, build_state,
                   keymap, artifacts, system_vars>>

\* ------------------------------------------- building a geometry
\* The keys a caller may hand to add_key: any matrix position with
\* coordinates up to MaxMatrix and any LED index up to MaxLed, drawn at the
\* place of its matrix position.
KeyGeometries ==
    {KeyGeometry(<<row, col>>, led, col, row) :
        row \in 0..MaxMatrix, col \in 0..MaxMatrix, led \in 0..MaxLed}

\* A call of geometry.add_key(key)
AddKey ==
    /\ Len(geometry.keys) < MaxKeys
    /\ \E key \in KeyGeometries : geometry' = add_key(geometry, key)
    /\ action' = <<"add_key", current_layer, FALSE>>
    /\ Tick
    /\ UNCHANGED <<layout, mapping, dirty, current_layer, selected_position,
                   selection_mode, selected_keys, clipboard, active_popup,
                   manager, error_message, pastes_pending, firmware_vars,
                   tap_dance_vars, other_vars>>

\* The mapping is rebuilt for a geometry that has changed since it was
\* built.
DeriveMapping ==
    /\ mapping /= VisualLayoutMapping(geometry)
    /\ mapping' = VisualLayoutMapping(geometry)
    /\ action' = <<"derive_mapping", current_layer, FALSE>>
    /\ Tick
    /\ UNCHANGED <<layout, geometry, dirty, current_layer, selected_position,
                   selection_mode, selected_keys, clipboard, active_popup,
                   manager, error_message, pastes_pending, firmware_vars,
                   tap_dance_vars, other_vars>>

\* -------------------------------------------------------- layout picker
\* What a step of the picker leaves alone.
PickerFrame(name) ==
    /\ action' = <<name, current_layer, FALSE>>
    /\ Tick
    /\ UNCHANGED <<layout, geometry, mapping, dirty, current_layer,
                   selected_position, selection_mode, selected_keys, clipboard,
                   active_popup, manager, error_message, pastes_pending,
                   firmware_vars, tap_dance_vars, color_picker_context,
                   inspected, run_loop, build_state,
                   keymap, artifacts, system_vars>>

\* run_layout_picker_terminal: an iteration whose poll times out, whose
\* event is no key, or whose key the picker keeps to itself
PickerNoEvent ==
    /\ session.stage = "picker"
    /\ UNCHANGED session
    /\ PickerFrame("picker_idle")

\* run_layout_picker_terminal: draw, poll or read fails
PickerIoError ==
    /\ session.stage = "picker"
    /\ session' = [session EXCEPT !.stage = "returned", !.result = "io error"]
    /\ PickerFrame("picker_error")

\* run_layout_picker_terminal: LayoutPickerEvent::CreateNew
PickerCreateNew ==
    /\ session.stage = "picker"
    /\ \E wizard \in {"ok", "wizard error"} :
          session' = [session EXCEPT !.stage = "returned",
                                     !.terminal = "restored",
                                     !.result = wizard]
    /\ PickerFrame("picker_new")

\* run_layout_picker_terminal: LayoutPickerEvent::Cancelled
PickerCancelled ==
    /\ session.stage = "picker"
    /\ session' = [session EXCEPT !.stage = "returned",
                                  !.terminal = "restored", !.result = "ok"]
    /\ PickerFrame("picker_cancelled")

\* A selection that falls back to a default variant when the layout names
\* none, and goes on to the editor.
PickerLayoutSelectedDefaultVariant ==
    /\ session.stage = "picker"
    /\ \E path \in Paths, outcome \in LoadOutcomes :
          session' =
              [session EXCEPT
                  !.selected = path,
                  !.outcome = outcome,
                  !.terminal = IF outcome \in {"load", "geometry", "terminal"}
                               THEN "restored" ELSE "raw",
                  !.app_state = outcome \in {"variant", "adjust", "run"},
                  !.tui_runs = IF outcome \in {"variant", "run"}
                               THEN @ + 1 ELSE @,
                  !.stage = IF outcome \in {"variant", "run"}
                            THEN "editor" ELSE "returned",
                  !.result =
                      CASE outcome = "load" -> "load error"
                        [] outcome = "geometry" -> "geometry error"
                        [] outcome = "terminal" -> "terminal error"
                        [] outcome = "app_state" -> "app state error"
                        [] outcome = "adjust" -> "adjust error"
                        [] OTHER -> None]
    /\ PickerFrame("picker_selected")

\* run_layout_picker_terminal: LayoutPickerEvent::LayoutSelected(path), up to
\* the call of run_tui.  Every step before it hands its failure back with `?`.
PickerLayoutSelected ==
    /\ session.stage = "picker"
    /\ \E path \in Paths, outcome \in LoadOutcomes :
          session' =
              [session EXCEPT
                  !.selected = path,
                  !.outcome = outcome,
                  !.terminal = IF outcome \in {"app_state", "adjust", "run"}
                               THEN "raw" ELSE "restored",
                  !.app_state = outcome \in {"adjust", "run"},
                  !.tui_runs = IF outcome = "run" THEN @ + 1 ELSE @,
                  !.stage = IF outcome = "run" THEN "editor" ELSE "returned",
                  !.result =
                      CASE outcome = "load" -> "load error"
                        [] outcome = "variant" ->
                             "Layout variant not specified in layout metadata"
                        [] outcome = "geometry" -> "geometry error"
                        [] outcome = "terminal" -> "terminal error"
                        [] outcome = "app_state" -> "app state error"
                        [] outcome = "adjust" -> "adjust error"
                        [] outcome = "run" -> None]
    /\ PickerFrame("picker_selected")

\* run_layout_picker_terminal, after run_tui has returned: the terminal is
\* restored and the loop's result handed back
EditorReturns ==
    /\ session.stage = "editor"
    /\ app_exit /= None
    /\ session' = [session EXCEPT
                      !.stage = "returned",
                      !.terminal = "restored",
                      !.result = IF app_exit = "quit" THEN "ok"
                                 ELSE "editor error"]
    /\ action' = <<"picker_returned", current_layer, FALSE>>
    /\ steps < MaxSteps /\ steps' = steps + 1
    /\ UNCHANGED <<layout, geometry, mapping, dirty, current_layer,
                   selected_position, selection_mode, selected_keys, clipboard,
                   active_popup, manager, error_message, pastes_pending,
                   firmware_vars, tap_dance_vars, color_picker_context,
                   inspected, run_loop, build_state,
                   keymap, artifacts, system_vars>>

\* handle_main_input, Ctrl+Q: quit at once, or ask about unsaved changes
Quit ==
    /\ active_popup = None
    /\ IF dirty
       THEN active_popup' = "UnsavedChangesPrompt" /\ UNCHANGED app_exit
       ELSE app_exit' = "quit" /\ UNCHANGED active_popup
    /\ action' = <<"quit", current_layer, FALSE>>
    /\ Tick
    /\ UNCHANGED <<layout, geometry, mapping, dirty, current_layer,
                   selected_position, selection_mode, selected_keys, clipboard,
                   manager, error_message, pastes_pending, report,
                   generator_calls, tap_dance_vars, other_vars>>

\* handle_unsaved_prompt_input: 'q' quits without saving, Esc goes back
UnsavedPrompt ==
    /\ active_popup = "UnsavedChangesPrompt"
    /\ \/ /\ app_exit' = "quit"
          /\ UNCHANGED <<active_popup, error_message>>
       \/ /\ active_popup' = None
          /\ clear_error
          /\ UNCHANGED app_exit
    /\ action' = <<"quit", current_layer, FALSE>>
    /\ Tick
    /\ UNCHANGED <<layout, geometry, mapping, dirty, current_layer,
                   selected_position, selection_mode, selected_keys, clipboard,
                   manager, pastes_pending, report, generator_calls,
                   tap_dance_vars, other_vars>>

\* ------------------------------------------------------- CLI commands
\* The --section values a user may give, the last one unknown, and the
\* --category values, None for no filter and the last one unknown.
SectionArgs ==
    {"metadata", "layers", "categories", "tap-dances", "settings", "bogus"}
CategoryArgs == {None, "basic", "navigation", "bogus"}

\* KeycodeDb::get_category(cat).is_some(), for the embedded database
get_category(cat) == cat \in {"basic", "navigation"}

\* What a run of a CLI command leaves alone.
CliFrame(name) ==
    /\ action' = <<name, current_layer, FALSE>>
    /\ Tick
    /\ UNCHANGED <<layout, geometry, mapping, dirty, current_layer,
                   selected_position, selection_mode, selected_keys, clipboard,
                   active_popup, manager, error_message, pastes_pending,
                   firmware_vars, tap_dance_vars, color_picker_context,
                   session, run_loop, build_state, keymap, artifacts,
                   backend_vars, file_vars, build_vars>>

\* An inspect command that loads the layout before it looks at the section.
InspectExecuteLoadsFirst ==
    /\ \E section \in SectionArgs, load \in {"ok", "err"},
          json \in BOOLEAN, serialized \in {"ok", "err"} :
          LET run == [NoCommand EXCEPT !.command = "inspect",
                         !.value = section, !.load = load, !.json = json]
          IN  IF load = "err"
              THEN /\ cli' = [run EXCEPT !.exit_code = ExitCode.IoError,
                                  !.message = "Failed to load layout"]
                   /\ UNCHANGED inspected
              ELSE IF section = "bogus"
              THEN /\ cli' = [run EXCEPT
                                  !.exit_code = ExitCode.ValidationError,
                                  !.message = "Invalid section",
                                  !.layout_loaded = TRUE]
                   /\ UNCHANGED inspected
              ELSE /\ cli' = [run EXCEPT !.layout_loaded = TRUE,
                                  !.printed = TRUE]
                   /\ UNCHANGED inspected
    /\ CliFrame("cli_inspect")

\* InspectArgs::execute: the section is checked, then the layout is loaded,
\* then the section is printed, as JSON or as text
InspectExecute ==
    /\ \E section \in SectionArgs, load \in {"ok", "err"},
          json \in BOOLEAN, serialized \in {"ok", "err"} :
          LET run == [NoCommand EXCEPT !.command = "inspect",
                         !.value = section, !.json = json]
          IN  IF section \notin {"metadata", "layers", "categories",
                                 "tap-dances", "settings"}
              THEN /\ cli' = [run EXCEPT
                                  !.exit_code = ExitCode.ValidationError,
                                  !.message = "Invalid section"]
                   /\ UNCHANGED inspected
              ELSE IF load = "err"
              THEN /\ cli' = [run EXCEPT !.load = load,
                                  !.exit_code = ExitCode.IoError,
                                  !.message = "Failed to load layout"]
                   /\ UNCHANGED inspected
              ELSE IF json /\ serialized = "err"
              THEN /\ cli' = [run EXCEPT !.load = load,
                                  !.layout_loaded = TRUE,
                                  !.exit_code = ExitCode.IoError,
                                  !.message = "Failed to serialize JSON"]
                   /\ UNCHANGED inspected
              ELSE /\ cli' = [run EXCEPT !.load = load,
                                  !.layout_loaded = TRUE, !.printed = TRUE]
                   /\ inspected' = IF section = "tap-dances"
                                   THEN TapDanceInfos(layout_file)
                                   ELSE inspected
    /\ CliFrame("cli_inspect")

\* KeycodesArgs::execute: the database is loaded, then the category is
\* checked, then the keycodes are printed, as JSON or as a table
KeycodesExecute ==
    /\ \E category \in CategoryArgs, load \in {"ok", "err"},
          json \in BOOLEAN, serialized \in {"ok", "err"} :
          LET run == [NoCommand EXCEPT !.command = "keycodes",
                         !.value = category, !.load = load, !.json = json]
          IN  IF load = "err"
              THEN cli' = [run EXCEPT
                              !.exit_code = ExitCode.IoError,
                              !.message = "Failed to load keycode database"]
              ELSE IF category /= None /\ ~get_category(category)
              THEN cli' = [run EXCEPT
                              !.exit_code = ExitCode.ValidationError,
                              !.message = "Unknown category"]
              ELSE IF json /\ serialized = "err"
              THEN cli' = [run EXCEPT
                              !.exit_code = ExitCode.IoError,
                              !.message = "Failed to serialize JSON"]
              ELSE cli' = [run EXCEPT !.printed = TRUE]
    /\ UNCHANGED inspected
    /\ CliFrame("cli_keycodes")

\* ------------------------------------------------------- desktop shell
\* find_available_port: the port the system hands out for one spawn
find_available_port(child) == 49152 + child

\* What a step of the desktop shell leaves alone.
BackendFrame(name) ==
    /\ action' = <<name, current_layer, FALSE>>
    /\ UNCHANGED <<layout, geometry, mapping, dirty, current_layer,
                   selected_position, selection_mode, selected_keys, clipboard,
                   active_popup, manager, error_message, pastes_pending, steps,
                   firmware_vars, tap_dance_vars, color_picker_context,
                   inspected, session, run_loop, build_state, keymap,
                   artifacts, cli_vars, file_vars, build_vars>>

\* The call returns what it returns and is over.
Returns(state, c, reply_) ==
    [state EXCEPT !.pc[c] = "idle", !.command[c] = None, !.reply = reply_]

\* The frontend invokes one of the four commands.
Invoke ==
    /\ ~backend.exited
    /\ \E c \in Calls,
          command \in {"start_backend", "stop_backend", "is_backend_running",
                       "get_backend_url"} :
          /\ backend.pc[c] = "idle"
          /\ backend' = [backend EXCEPT !.pc[c] = "waiting",
                             !.command[c] = command]
    /\ BackendFrame("invoke")

\* start_backend that looks at the handle without keeping the lock.
StartBackendUnlocked ==
    /\ ~backend.exited
    /\ \E c \in Calls :
          /\ backend.pc[c] = "waiting"
          /\ backend.command[c] = "start_backend"
          /\ backend.lock = 0
          /\ IF backend.handle /= <<>>
             THEN backend' = Returns(backend, c,
                      [NoReply EXCEPT !.message = "Backend already running"])
             ELSE backend' = [backend EXCEPT !.pc[c] = "locked"]
    /\ BackendFrame("start_backend")

\* start_backend, up to the spawn: the lock is taken, and with a handle
\* there the call returns
StartBackend ==
    /\ ~backend.exited
    /\ \E c \in Calls :
          /\ backend.pc[c] = "waiting"
          /\ backend.command[c] = "start_backend"
          /\ backend.lock = 0
          /\ IF backend.handle /= <<>>
             THEN backend' = Returns(backend, c,
                      [NoReply EXCEPT !.message = "Backend already running"])
             ELSE backend' = [backend EXCEPT !.pc[c] = "locked", !.lock = c]
    /\ BackendFrame("start_backend")

\* spawn_backend, up to the wait: a port and the binary are found and the
\* process is spawned, or one of the three fails and start_backend returns
\* the error
SpawnBackend ==
    /\ ~backend.exited
    /\ \E c \in Calls, found \in BOOLEAN :
          /\ backend.pc[c] = "locked"
          /\ IF found /\ backend.spawned < MaxSpawns
             THEN LET child == backend.spawned + 1
                  IN  backend' = [backend EXCEPT !.pc[c] = "spawned",
                          !.child = child, !.spawned = child,
                          !.processes = @ \cup {child},
                          !.rivals = {d \in Calls \ {c} :
                              /\ backend.pc[d] = "waiting"
                              /\ backend.command[d] = "start_backend"}]
             ELSE backend' = [Returns(backend, c,
                      [NoReply EXCEPT !.ok = FALSE,
                          !.message = "Failed to spawn backend process"])
                      EXCEPT !.lock = 0]
    /\ BackendFrame("spawn_backend")

\* A wait for the backend that stores the handle whatever the outcome.
BackendReadyAlways ==
    /\ ~backend.exited
    /\ \E c \in Calls, outcome \in {"ready", "exited", "timeout"} :
          /\ backend.pc[c] = "spawned"
          /\ LET child == backend.child
                 port == find_available_port(child)
                 after == [backend EXCEPT !.lock = 0, !.child = 0,
                              !.handle = <<[child |-> child, port |-> port]>>,
                              !.processes = IF outcome = "exited"
                                            THEN @ \ {child} ELSE @]
             IN  backend' = Returns(after, c,
                     IF outcome = "ready"
                     THEN [NoReply EXCEPT !.message =
                              "Backend started on port " \o ToString(port)]
                     ELSE [NoReply EXCEPT !.ok = FALSE,
                              !.message = "Backend failed to start"])
    /\ BackendFrame("backend_ready")

\* wait_for_backend_ready and the rest of start_backend: the backend is
\* ready and its handle is stored, or it has exited, or it is not ready in
\* time, and the child is dropped, which kills nothing
BackendReady ==
    /\ ~backend.exited
    /\ \E c \in Calls, outcome \in {"ready", "exited", "timeout"} :
          /\ backend.pc[c] = "spawned"
          /\ LET child == backend.child
                 port == find_available_port(child)
                 after == [backend EXCEPT !.lock = 0, !.child = 0]
             IN  CASE outcome = "ready" ->
                     backend' = Returns(
                         [after EXCEPT !.handle =
                             <<[child |-> child, port |-> port]>>], c,
                         [NoReply EXCEPT !.message =
                             "Backend started on port " \o ToString(port)])
                 [] outcome = "exited" ->
                     backend' = Returns(
                         [after EXCEPT !.processes = @ \ {child}], c,
                         [NoReply EXCEPT !.ok = FALSE,
                             !.message = "Backend failed to start"])
                 [] outcome = "timeout" ->
                     backend' = Returns(after, c,
                         [NoReply EXCEPT !.ok = FALSE,
                             !.message = "Backend failed to start"])
    /\ BackendFrame("backend_ready")

\* stop_backend, with BackendHandle::stop: the handle is taken and its
\* process is killed and waited for
StopBackend ==
    /\ ~backend.exited
    /\ \E c \in Calls :
          /\ backend.pc[c] = "waiting"
          /\ backend.command[c] = "stop_backend"
          /\ backend.lock = 0
          /\ IF backend.handle /= <<>>
             THEN backend' = Returns(
                      [backend EXCEPT !.handle = <<>>, !.rivals = {},
                          !.processes = @ \ {backend.handle[1].child}], c,
                      [NoReply EXCEPT !.message = "Backend stopped"])
             ELSE backend' = Returns(backend, c,
                      [NoReply EXCEPT !.message = "Backend not running"])
    /\ BackendFrame("stop_backend")

\* is_backend_running
IsBackendRunning ==
    /\ ~backend.exited
    /\ \E c \in Calls :
          /\ backend.pc[c] = "waiting"
          /\ backend.command[c] = "is_backend_running"
          /\ backend.lock = 0
          /\ backend' = Returns(backend, c,
                 [NoReply EXCEPT !.running = backend.handle /= <<>>])
    /\ BackendFrame("is_backend_running")

\* get_backend_url
GetBackendUrl ==
    /\ ~backend.exited
    /\ \E c \in Calls :
          /\ backend.pc[c] = "waiting"
          /\ backend.command[c] = "get_backend_url"
          /\ backend.lock = 0
          /\ backend' = Returns(backend, c,
                 [NoReply EXCEPT !.url =
                     IF backend.handle = <<>> THEN None
                     ELSE "http://127.0.0.1:"
                              \o ToString(backend.handle[1].port)])
    /\ BackendFrame("get_backend_url")

\* on_window_event with CloseRequested: the handler does nothing
CloseRequested ==
    /\ ~backend.closed
    /\ backend' = [backend EXCEPT !.closed = TRUE]
    /\ BackendFrame("close_requested")

\* run returns after the window has closed: the state is dropped with the
\* handle in it, and neither BackendHandle nor Child kills on drop
ExitApp ==
    /\ backend.closed
    /\ ~backend.exited
    /\ backend' = [backend EXCEPT !.exited = TRUE, !.handle = <<>>]
    /\ BackendFrame("exit")

\* What the runtime of the shell does by itself.
BackendStep ==
    \/ StartBackend
    \/ SpawnBackend
    \/ BackendReady
    \/ StopBackend
    \/ IsBackendRunning
    \/ GetBackendUrl
    \/ ExitApp

\* ------------------------------------------------------------ main loop
\* crossterm's events as run_tui tells them apart: three keys, Event::Resize
\* and one event that is neither
EventKinds == {"ctrl_q", "ctrl_b", "key", "resize", "mouse"}
KeyEvents == {"ctrl_q", "ctrl_b", "key"}

\* what the build key finds: no QMK path configured, a build that starts,
\* or start_build failing
BuildKeyOutcomes == {"not_configured", "started", "spawn_error"}

\* BuildState::new followed by start_build: building, nothing logged yet
StartedBuild == [building |-> TRUE, channel |-> 0, log_lines |-> 0]

\* BuildState::poll: the lines waiting in the channel move to log_lines
poll(bs) == [bs EXCEPT !.log_lines = @ + bs.channel, !.channel = 0]

\* what a step of run_tui leaves alone
LoopFrame(name) ==
    /\ action' = <<name, current_layer, FALSE>>
    /\ UNCHANGED <<layout, geometry, mapping, dirty, current_layer,
                   selected_position, selection_mode, selected_keys, clipboard,
                   manager, pastes_pending, report, generator_calls,
                   tap_dance_vars, color_picker_context, inspected, session,
                   keymap, artifacts, system_vars, steps>>

\* the terminal delivers an event
UserEvent ==
    /\ run_loop.pc /= "done"
    /\ run_loop.produced < MaxEvents
    /\ \E e \in EventKinds :
          run_loop' = [run_loop EXCEPT !.events = Append(@, e),
                                       !.produced = @ + 1]
    /\ LoopFrame("event")
    /\ UNCHANGED <<build_state, app_exit, active_popup, error_message>>

\* the build thread sends a log line
BuildOutput ==
    /\ run_loop.pc /= "done"
    /\ build_state /= Nothing
    /\ build_state.building
    /\ build_state.channel + build_state.log_lines < MaxMessages
    /\ build_state' = [build_state EXCEPT !.channel = @ + 1]
    /\ LoopFrame("build_output")
    /\ UNCHANGED <<run_loop, app_exit, active_popup, error_message>>

\* run_tui: terminal.draw, then event::poll(100 ms), which returns at once
\* when an event waits and gives up after the timeout when none does
LoopPoll ==
    /\ run_loop.pc = "draw"
    /\ run_loop' = [run_loop EXCEPT
                       !.pc = IF run_loop.events /= <<>> THEN "read"
                              ELSE "poll_build"]
    /\ LoopFrame("loop_poll")
    /\ UNCHANGED <<build_state, app_exit, active_popup, error_message>>

\* run_tui: the first event::read(). A key goes to handle_key_event (Ctrl+Q
\* as handle_main_input, Ctrl+B as handle_firmware_build); any other event
\* falls to the `else if`, which reads again.
LoopRead ==
    /\ run_loop.pc = "read"
    /\ run_loop.events /= <<>>
    /\ active_popup = None
    /\ LET e == Head(run_loop.events)
           rest == Tail(run_loop.events)
       IN  \/ /\ e = "ctrl_q"
              /\ IF dirty
                 THEN /\ active_popup' = "UnsavedChangesPrompt"
                      /\ run_loop' = [run_loop EXCEPT !.events = rest,
                                                      !.pc = "poll_build"]
                      /\ UNCHANGED app_exit
                 ELSE /\ app_exit' = "quit"
                      /\ run_loop' = [run_loop EXCEPT !.events = rest,
                                                      !.pc = "done"]
                      /\ UNCHANGED active_popup
              /\ UNCHANGED <<build_state, error_message>>
           \/ /\ e = "ctrl_b"
              /\ \E outcome \in BuildKeyOutcomes :
                    CASE outcome = "not_configured" ->
                           /\ set_error("QMK firmware path not configured")
                           /\ run_loop' = [run_loop EXCEPT
                                              !.events = rest,
                                              !.pc = "poll_build"]
                           /\ UNCHANGED <<build_state, app_exit>>
                      [] build_state /= Nothing /\ build_state.building ->
                           /\ set_error("Build already in progress")
                           /\ run_loop' = [run_loop EXCEPT
                                              !.events = rest,
                                              !.pc = "poll_build"]
                           /\ UNCHANGED <<build_state, app_exit>>
                      [] outcome = "started" ->
                           /\ build_state' = StartedBuild
                           /\ clear_error
                           /\ run_loop' = [run_loop EXCEPT
                                              !.events = rest,
                                              !.pc = "poll_build"]
                           /\ UNCHANGED app_exit
                      [] OTHER ->
                           /\ build_state' =
                                  [StartedBuild EXCEPT !.building = FALSE]
                           /\ app_exit' = "error"
                           /\ run_loop' = [run_loop EXCEPT !.events = rest,
                                                           !.pc = "done"]
                           /\ UNCHANGED error_message
              /\ UNCHANGED active_popup
           \/ /\ e = "key"
              /\ run_loop' = [run_loop EXCEPT !.events = rest,
                                              !.pc = "poll_build"]
              /\ UNCHANGED <<build_state, app_exit, active_popup,
                             error_message>>
           \/ /\ e \notin KeyEvents
              /\ run_loop' = [run_loop EXCEPT !.events = rest,
                                              !.pc = "read_again"]
              /\ UNCHANGED <<build_state, app_exit, active_popup,
                             error_message>>
    /\ LoopFrame("loop_read")

\* run_tui: `else if let Event::Resize(_, _) = event::read()?`, a second
\* event::read(), which waits until the terminal has another event and
\* drops it whatever it is
LoopReadAgain ==
    /\ run_loop.pc = "read_again"
    /\ run_loop.events /= <<>>
    /\ run_loop' = [run_loop EXCEPT !.events = Tail(@), !.pc = "poll_build"]
    /\ LoopFrame("loop_read_again")
    /\ UNCHANGED <<build_state, app_exit, active_popup, error_message>>

\* run_tui: build_state.poll() when there is a build state, then the
\* should_quit test, which no step of this loop has set
LoopPollBuild ==
    /\ run_loop.pc = "poll_build"
    /\ build_state' = IF build_state = Nothing THEN Nothing
                      ELSE poll(build_state)
    /\ run_loop' = [run_loop EXCEPT !.pc = "draw"]
    /\ LoopFrame("loop_poll_build")
    /\ UNCHANGED <<app_exit, active_popup, error_message>>

\* the steps run_tui takes by itself
LoopStep == LoopPoll \/ LoopRead \/ LoopReadAgain \/ LoopPollBuild

\* ------------------------------------------------------ clear and save
\* key.keycode = "KC_TRNS".to_string(), on the first key at pos
clear_keycode(layout_, idx, pos) ==
    LET key == KeyAt(layout_, idx, pos)
    IN  IF key = Nothing THEN layout_
        ELSE WriteKey(layout_, idx, pos,
                 ClipboardContent("KC_TRNS", key.color_override,
                                  key.category_id))

\* handle_clear_key: the loop over the selected keys
RECURSIVE ClearKeys(_, _, _)
ClearKeys(layout_, idx, positions) ==
    IF positions = <<>> THEN layout_
    ELSE ClearKeys(clear_keycode(layout_, idx, Head(positions)), idx,
                   Tail(positions))

\* What handle_clear_key leaves alone.
ClearFrame ==
    /\ action' = <<"clear", current_layer, layout' /= layout>>
    /\ UNCHANGED pastes_pending
    /\ Tick
    /\ UNCHANGED <<firmware_vars, tap_dance_vars, other_vars>>
    /\ UNCHANGED <<geometry, mapping, current_layer, selected_position,
                   clipboard, active_popup, manager>>

\* handle_clear_key
ClearKey ==
    /\ active_popup = None
    /\ IF selection_mode /= None /\ selected_keys /= <<>>
       THEN /\ layout' = ClearKeys(layout, current_layer, selected_keys)
            /\ selected_keys' = <<>>
            /\ selection_mode' = None
            /\ dirty' = TRUE
            /\ clear_error
       ELSE IF get_selected_key /= Nothing
       THEN /\ layout' = clear_keycode(layout, current_layer,
                                       selected_position)
            /\ dirty' = TRUE
            /\ clear_error
            /\ UNCHANGED <<selected_keys, selection_mode>>
       ELSE UNCHANGED <<layout, dirty, error_message, selected_keys,
                        selection_mode>>
    /\ ClearFrame

\* What the save and quit handlers leave alone.
SaveFrame ==
    /\ Tick
    /\ UNCHANGED <<layout, geometry, mapping, current_layer,
                   selected_position, selection_mode, selected_keys, clipboard,
                   manager, pastes_pending, report, generator_calls,
                   tap_dance_vars, color_picker_context, inspected, session,
                   run_loop, build_state, keymap, artifacts, cli_vars,
                   backend_vars, build_vars, source_path>>

\* handle_save: with a path the layout is written, which may fail, and the
\* state is marked clean; with none an error is set
Save ==
    /\ active_popup = None
    /\ IF source_path /= None
       THEN \E written \in BOOLEAN :
               IF written
               THEN /\ layout_file' = layout
                    /\ dirty' = FALSE
                    /\ clear_error
                    /\ UNCHANGED app_exit
               ELSE /\ app_exit' = "error"
                    /\ UNCHANGED <<layout_file, dirty, error_message>>
       ELSE /\ set_error("No file path set")
            /\ UNCHANGED <<layout_file, dirty, app_exit>>
    /\ action' = <<"save", current_layer, FALSE>>
    /\ UNCHANGED active_popup
    /\ SaveFrame

\* A quit that does not look at the dirty flag.
QuitAtOnce ==
    /\ active_popup = None
    /\ app_exit' = "quit"
    /\ action' = <<"quit", current_layer, FALSE>>
    /\ UNCHANGED <<active_popup, dirty, layout_file, error_message>>
    /\ SaveFrame

\* handle_quit
handle_quit ==
    /\ active_popup = None
    /\ IF dirty
       THEN active_popup' = "UnsavedChangesPrompt" /\ UNCHANGED app_exit
       ELSE app_exit' = "quit" /\ UNCHANGED active_popup
    /\ action' = <<"quit", current_layer, FALSE>>
    /\ UNCHANGED <<dirty, layout_file, error_message>>
    /\ SaveFrame

\* handle_unsaved_prompt_input: 's' saves when there is a path and quits,
\* 'q' quits, Esc goes back to the editor
handle_unsaved_prompt_input ==
    /\ active_popup = "UnsavedChangesPrompt"
    /\ \E key \in {"s", "q", "Esc"}, written \in BOOLEAN :
          /\ action' = <<"prompt_" \o key, current_layer, FALSE>>
          /\ CASE key = "s" ->
                   IF source_path = None
                   THEN /\ app_exit' = "quit"
                        /\ UNCHANGED <<layout_file, dirty, error_message,
                                       active_popup>>
                   ELSE IF written
                   THEN /\ layout_file' = layout
                        /\ dirty' = FALSE
                        /\ clear_error
                        /\ app_exit' = "quit"
                        /\ UNCHANGED active_popup
                   ELSE /\ app_exit' = "error"
                        /\ UNCHANGED <<layout_file, dirty, error_message,
                                       active_popup>>
               [] key = "q" ->
                   /\ app_exit' = "quit"
                   /\ UNCHANGED <<layout_file, dirty, error_message,
                                  active_popup>>
               [] key = "Esc" ->
                   /\ active_popup' = None
                   /\ clear_error
                   /\ UNCHANGED <<layout_file, dirty, app_exit>>
    /\ SaveFrame

\* ------------------------------------------------- keys of the main UI
\* handle_main_input: the arms of its match that take the 'l' key and the
\* 'b' key, in the order they are written
MainArms ==
    << [code |-> "l", modifiers |-> "ANY", arm |-> "move_right"],
       [code |-> "b", modifiers |-> "CONTROL", arm |-> "build"],
       [code |-> "l", modifiers |-> "CONTROL", arm |-> "toggle_build_log"] >>

ArmMatches(i, code, modifiers) ==
    /\ MainArms[i].code = code
    /\ MainArms[i].modifiers \in {"ANY", modifiers}

\* A match that takes the arm written last of those that match.
last_arm(code, modifiers) ==
    LET matching == {i \in 1..Len(MainArms) : ArmMatches(i, code, modifiers)}
    IN  IF matching = {} THEN "none"
        ELSE MainArms[CHOOSE i \in matching :
                          \A j \in matching : j <= i].arm

\* match (key.code, key.modifiers): the first arm that matches is taken
first_arm(code, modifiers) ==
    LET matching == {i \in 1..Len(MainArms) : ArmMatches(i, code, modifiers)}
    IN  IF matching = {} THEN "none"
        ELSE MainArms[CHOOSE i \in matching :
                          \A j \in matching : i <= j].arm

\* handle_key_event with no popup, for the 'l' key, alone or with Ctrl
MainKeyL ==
    /\ active_popup = None
    /\ \E modifiers \in {"NONE", "CONTROL"} :
          /\ action' = <<IF modifiers = "CONTROL" THEN "ctrl_l" ELSE "l",
                         current_layer, FALSE>>
          /\ CASE first_arm("l", modifiers) = "move_right" ->
                   /\ IF selected_position[2] < Min(NavColLimit, MaxCol)
                      THEN /\ selected_position' =
                                 Position(selected_position[1],
                                          selected_position[2] + 1)
                           /\ clear_error
                      ELSE UNCHANGED <<selected_position, error_message>>
                   /\ UNCHANGED <<active_popup, build_log_state>>
               [] first_arm("l", modifiers) = "toggle_build_log" ->
                   /\ IF build_state /= Nothing
                      THEN /\ active_popup' = IF build_log_state.visible
                                              THEN None ELSE "BuildLog"
                           /\ build_log_state' =
                                  [build_log_state EXCEPT !.visible = ~@]
                           /\ clear_error
                      ELSE /\ set_error("No build active")
                           /\ UNCHANGED <<active_popup, build_log_state>>
                   /\ UNCHANGED selected_position
    /\ Tick
    /\ UNCHANGED <<layout, geometry, mapping, dirty, current_layer,
                   selection_mode, selected_keys, clipboard, manager,
                   pastes_pending, firmware_vars, tap_dance_vars,
                   color_picker_context, inspected, session, run_loop,
                   build_state, keymap, artifacts, cli_vars, backend_vars,
                   file_vars>>

\* BuildState::new: nothing is being built
NewBuildState == [StartedBuild EXCEPT !.building = FALSE]

\* What handle_firmware_build leaves alone.
BuildFrame ==
    /\ Tick
    /\ UNCHANGED <<layout, geometry, mapping, dirty, current_layer,
                   selected_position, selection_mode, selected_keys, clipboard,
                   active_popup, manager, pastes_pending, report,
                   generator_calls, tap_dance_vars, color_picker_context,
                   inspected, session, run_loop, keymap, artifacts,
                   system_vars>>

\* A handle_firmware_build that does not ask whether a build is running.
BuildFirmwareAgain ==
    /\ active_popup = None
    /\ \E qmk_firmware \in {None, "qmk_firmware"}, started \in BOOLEAN :
          IF qmk_firmware = None
          THEN /\ set_error("QMK firmware path not configured")
               /\ action' = <<"build_no_path", current_layer, FALSE>>
               /\ UNCHANGED <<build_state, app_exit>>
          ELSE /\ action' = <<"build", current_layer, FALSE>>
               /\ IF started
                  THEN /\ build_state' = StartedBuild
                       /\ clear_error
                       /\ UNCHANGED app_exit
                  ELSE /\ build_state' = NewBuildState
                       /\ app_exit' = "error"
                       /\ UNCHANGED error_message
    /\ BuildFrame

\* handle_firmware_build, with the QMK path of the configuration and what
\* start_build returns
BuildFirmware ==
    /\ active_popup = None
    /\ \E qmk_firmware \in {None, "qmk_firmware"}, started \in BOOLEAN :
          IF qmk_firmware = None
          THEN /\ set_error("QMK firmware path not configured")
               /\ action' = <<"build_no_path", current_layer, FALSE>>
               /\ UNCHANGED <<build_state, app_exit>>
          ELSE LET bs == IF build_state = Nothing THEN NewBuildState
                         ELSE build_state
               IN  /\ action' = <<"build", current_layer, FALSE>>
                   /\ IF bs.building
                      THEN /\ build_state' = bs
                           /\ set_error("Build already in progress")
                           /\ UNCHANGED app_exit
                      ELSE IF started
                      THEN /\ build_state' = StartedBuild
                           /\ clear_error
                           /\ UNCHANGED app_exit
                      ELSE /\ build_state' = bs
                           /\ app_exit' = "error"
                           /\ UNCHANGED error_message
    /\ BuildFrame

\* The build thread comes to its end and BuildState::poll takes note.
BuildFinishes ==
    /\ build_state /= Nothing
    /\ build_state.building
    /\ build_state' = [build_state EXCEPT !.building = FALSE]
    /\ LoopFrame("build_finished")
    /\ UNCHANGED <<run_loop, app_exit, active_popup, error_message>>

\* -------------------------------------------------------- specification
Next ==
    \/ MoveUp
    \/ MoveDown
    \/ MoveLeft
    \/ MoveRight
    \/ PreviousLayer
    \/ NextLayer
    \/ ToggleSelectionMode
    \/ ToggleCurrentKey
    \/ CopyKey
    \/ CutKey
    \/ PasteKey
    \/ UndoPaste
    \/ OpenCategoryManager
    \/ ManagerClose
    \/ ManagerSelect
    \/ ManagerStartDelete
    \/ ManagerAssignLayer
    \/ ManagerConfirmDelete
    \/ ManagerCancelDelete

Spec == Init /\ [][Next]_vars

\* Editing interleaved with Ctrl+G: the key presses that change the layout,
\* the clipboard and the dirty flag, and firmware generation.
NextGenerate ==
    \/ MoveRight
    \/ MoveDown
    \/ NextLayer
    \/ CopyKey
    \/ CutKey
    \/ PasteKey
    \/ UndoPaste
    \/ GenerateValidatorFails
    \/ GenerateFirmware

SpecGenerate == Init /\ [][NextGenerate]_vars

\* The tap dances a loaded layout may hold.
LoadedTapDances ==
    { TapDanceAction(<<"a">>, <<"a">>, NoString, NoString),
      TapDanceAction(<<"_">>, <<"-">>, Some(<<"a">>), NoString),
      TapDanceAction(<<"a", "_">>, <<"a">>, Some(<<"-">>), Some(<<"a">>)),
      TapDanceAction(<<"_", "a">>, <<"a">>, NoString, Some(<<"-">>)) }

\* The collections of up to MaxTapDances of them, in any order, with unique
\* names.
LoadedCollections ==
    {tds \in UNION {[1..n -> LoadedTapDances] : n \in 0..MaxTapDances} :
        \A i, j \in 1..Len(tds) : tds[i].name = tds[j].name => i = j}

\* The layouts the tap-dance editor and the documentation export start
\* from: the fixture with a tap-dance key on layer 1 and one of the
\* collections.
LoadedLayouts ==
    {[WriteKey(InitialLayout, 1, Position(0, 1),
               ClipboardContent("TD(a)", None, None))
         EXCEPT !.tap_dances = tds] : tds \in LoadedCollections}

InitTapDance == \E loaded \in LoadedLayouts : InitWith(loaded)

\* The keys of the tap-dance editor, and documentation exports.
NextTapDance ==
    \/ TapDanceSelectUp
    \/ TapDanceSelectDown
    \/ TapDanceStartNew
    \/ TapDanceType
    \/ TapDanceBackspace
    \/ TapDanceEnter
    \/ TapDanceEscape
    \/ GenerateTapDanceDocs

SpecTapDance == InitTapDance /\ [][NextTapDance]_vars


\* A layout whose category ids are those of the names "A" and "A a".
CategoryLayout ==
    [categories |-> << Category("a", "A", "blue"),
                       Category("a-a", "A a", "green") >>,
     layers |-> << [number |-> 0, category_id |-> "a-a",
                    keys |-> << KeyDefinition(Position(0, 0), "KC_A", None, "a"),
                                KeyDefinition(Position(0, 1), "KC_B", None,
                                              None) >>] >>,
     tap_dances |-> <<>>]

InitCategory == InitWith(CategoryLayout)

\* The keys of the category manager: browsing, deleting and creating.
NextCategory ==
    \/ OpenCategoryManager
    \/ ManagerClose
    \/ ManagerSelect
    \/ ManagerStartDelete
    \/ ManagerConfirmDelete
    \/ ManagerCancelDelete
    \/ ManagerStartCreate
    \/ ManagerType
    \/ ManagerBackspace
    \/ ManagerCancelInput
    \/ ManagerConfirmName

SpecCategory == InitCategory /\ [][NextCategory]_vars

\* The category manager's rename: the keys that lead to it and edit the name.
NextRename ==
    \/ OpenCategoryManager
    \/ ManagerClose
    \/ ManagerSelect
    \/ ManagerAssignLayer
    \/ ManagerStartRename
    \/ ManagerType
    \/ ManagerBackspace
    \/ ManagerConfirmRename

SpecRename == InitCategory /\ [][NextRename]_vars

\* The command-line readers of a layout: inspect and the documentation
\* export.
NextInspect ==
    \/ InspectTapDances
    \/ GenerateTapDanceDocs

SpecInspect == InitTapDance /\ [][NextInspect]_vars

\* A geometry under construction: KeyboardGeometry::new with any matrix
\* size up to MaxMatrix, then add_key calls.
InitGeometry ==
    \E matrix_rows \in 1..MaxMatrix, matrix_cols \in 1..MaxMatrix :
        InitOn(InitialLayout, KeyboardGeometry(matrix_rows, matrix_cols),
               VisualLayoutMapping(KeyboardGeometry(matrix_rows, matrix_cols)))

NextGeometry == AddKey

SpecGeometry == InitGeometry /\ [][NextGeometry]_vars

\* The editor's keys are handled only while run_tui runs.
SessionMoveRight == session.stage = "editor" /\ MoveRight
SessionCopyKey == session.stage = "editor" /\ CopyKey
SessionPasteKey == session.stage = "editor" /\ PasteKey
SessionQuit == session.stage = "editor" /\ Quit
SessionUnsavedPrompt == session.stage = "editor" /\ UnsavedPrompt
SessionGenerateFails == session.stage = "editor" /\ GenerateValidatorFails

\* A session: the layout picker, then the editor's keys once run_tui runs.
NextSession ==
    \/ PickerNoEvent
    \/ PickerIoError
    \/ PickerCreateNew
    \/ PickerCancelled
    \/ PickerLayoutSelected
    \/ EditorReturns
    \/ SessionMoveRight
    \/ SessionCopyKey
    \/ SessionPasteKey
    \/ SessionQuit
    \/ SessionUnsavedPrompt
    \/ SessionGenerateFails

SpecSession == Init /\ [][NextSession]_vars


\* The geometries of up to MaxKeys add_key calls on a matrix that holds
\* every key of KeyGeometries.
Geometries ==
    {[KeyboardGeometry(MaxMatrix + 1, MaxMatrix + 1) EXCEPT !.keys = keys] :
        keys \in UNION {[1..n -> KeyGeometries] : n \in 0..MaxKeys}}

\* A geometry whose keys have been added, with the mapping still that of
\* the empty geometry, and the mapping then derived from it.
InitMapping ==
    \E geometry_ \in Geometries :
        InitOn(InitialLayout, geometry_,
               VisualLayoutMapping(
                   KeyboardGeometry(MaxMatrix + 1, MaxMatrix + 1)))

NextMapping == DeriveMapping

SpecMapping == InitMapping /\ [][NextMapping]_vars

\* The 2x2 board wired as the right half of a split keyboard: the key
\* array runs from the right, so LED and layout index fall from left to
\* right.
MirroredGeometry ==
    [InitialGeometry EXCEPT
        !.keys = << KeyGeometry(<<0, 0>>, 1, 0, 0),
                    KeyGeometry(<<0, 1>>, 0, 1, 0),
                    KeyGeometry(<<1, 0>>, 3, 0, 1),
                    KeyGeometry(<<1, 1>>, 2, 1, 1) >>]

\* The sequences that hold the entries of keys in some other order.
Reordered(keys) ==
    {[i \in 1..Len(keys) |-> keys[p[i]]] :
        p \in {q \in [1..Len(keys) -> 1..Len(keys)] :
                  \A i, j \in 1..Len(keys) : q[i] = q[j] => i = j}}

\* The fixture's layers with their KeyDefinitions created in any order, on
\* either board; then keys are edited and the keymap is generated.
InitKeymap ==
    \E first \in Reordered(InitialLayers[1].keys),
       second \in Reordered(InitialLayers[2].keys),
       geometry_ \in {InitialGeometry, MirroredGeometry} :
        InitOn([InitialLayout EXCEPT !.layers[1].keys = first,
                                     !.layers[2].keys = second],
               geometry_, VisualLayoutMapping(geometry_))

NextKeymap == MoveRight \/ NextLayer \/ CopyKey \/ PasteKey \/ GenerateKeymap

SpecKeymap == InitKeymap /\ [][NextKeymap]_vars

\* The fixture with one key of layer 0 holding a layer-switch code or a
\* plain one; layer 2 does not exist.
InitValidate ==
    \E keycode \in {"MO(1)", "MO(2)", "LT(2,KC_A)", "KC_B"} :
        InitWith(WriteKey(InitialLayout, 0, Position(0, 1),
                          ClipboardContent(keycode, None, None)))

NextValidate ==
    MoveRight \/ NextLayer \/ CopyKey \/ PasteKey \/ GenerateValidated

SpecValidate == InitValidate /\ [][NextValidate]_vars

\* A layout with tap dances is edited and its outputs are generated, more
\* than once.
NextOutput == MoveRight \/ CopyKey \/ PasteKey \/ GenerateOutputs

SpecOutput == InitTapDance /\ [][NextOutput]_vars

\* AppState::new with a layout that has a file and with one that has none.
InitQuit ==
    \E path \in {None, "layout.md"} :
        InitAt(InitialLayout, InitialGeometry, InitialMapping, path)

\* Editing, saving and quitting.
NextQuit ==
    \/ MoveRight
    \/ ClearKey
    \/ Save
    \/ handle_quit
    \/ handle_unsaved_prompt_input

SpecQuit == InitQuit /\ [][NextQuit]_vars

\* The editor with its clear key and its save key.
NextSave ==
    \/ MoveRight
    \/ NextLayer
    \/ ToggleSelectionMode
    \/ ToggleCurrentKey
    \/ CopyKey
    \/ CutKey
    \/ PasteKey
    \/ UndoPaste
    \/ OpenCategoryManager
    \/ ManagerClose
    \/ ManagerStartDelete
    \/ ManagerAssignLayer
    \/ ManagerConfirmDelete
    \/ ClearKey
    \/ Save

SpecSave == InitQuit /\ [][NextSave]_vars

\* AppState::new on a layout with no layer, with one and with two.
InitLayers ==
    \E n \in 0..Len(InitialLayers) :
        InitWith([InitialLayout EXCEPT !.layers = SubSeq(InitialLayers, 1, n)])

\* Moving over the layers and the keys.
NextLayers ==
    \/ NextLayer
    \/ PreviousLayer
    \/ MoveRight
    \/ MoveDown
    \/ CopyKey

SpecLayers == InitLayers /\ [][NextLayers]_vars

\* The main UI with its build key and its build thread.
NextBuild ==
    \/ MoveLeft
    \/ MainKeyL
    \/ BuildFirmware
    \/ BuildOutput
    \/ BuildFinishes

SpecBuild == Init /\ [][NextBuild]_vars

\* Runs of the inspect and keycodes commands on a layout file.
NextCli == InspectExecute \/ KeycodesExecute

SpecCli == InitTapDance /\ [][NextCli]_vars

\* The desktop shell with its frontend and its window.
NextBackend ==
    \/ Invoke
    \/ StartBackend
    \/ SpawnBackend
    \/ BackendReady
    \/ StopBackend
    \/ IsBackendRunning
    \/ GetBackendUrl
    \/ CloseRequested
    \/ ExitApp

SpecBackend == Init /\ [][NextBackend]_vars

\* The runtime runs every command that can take a step.
SpecBackendFair == Init /\ [][NextBackend]_vars /\ WF_vars(BackendStep)

\* run_tui with the terminal and the build thread around it. The loop is
\* a running thread: a step it can take it does take. The terminal and the
\* build thread owe nothing.
NextLoop == LoopStep \/ UserEvent \/ BuildOutput

SpecLoop == Init /\ [][NextLoop]_vars /\ WF_vars(LoopStep)

\* ----------------------------------------------------------- properties
Range(seq) == {seq[i] : i \in 1..Len(seq)}

CategoryIds(layout_) == {c.id : c \in Range(layout_.categories)}

\* The layers and keys of a layout, as (layer number, key number) pairs.
KeySlots(layout_) ==
    UNION {{<<l, k>> : k \in 1..Len(layout_.layers[l].keys)} :
              l \in 1..Len(layout_.layers)}

\* C1: every key's category_id and every layer's category_id, if set, is the
\* id of a category present in layout.categories: no editor operation leaves
\* a dangling category reference.
NoDanglingCategory ==
    /\ \A l \in 1..Len(layout.layers) :
          layout.layers[l].category_id /= None
              => layout.layers[l].category_id \in CategoryIds(layout)
    /\ \A slot \in KeySlots(layout) :
          LET key == layout.layers[slot[1]].keys[slot[2]]
          IN key.category_id /= None => key.category_id \in CategoryIds(layout)

\* C2: confirming the deletion of category C removes C from
\* layout.categories, clears category_id on every layer and every key (on
\* all layers) that referred to C, and leaves every other category and the
\* keycode, color override and category_id of every other key and layer
\* as they were.
DeleteSweepsOnlyReferences ==
    [][action'[1] = "delete" =>
        LET C == manager.category_id
            kept == {i \in 1..Len(layout.categories) :
                        layout.categories[i].id /= C}
        IN /\ C \notin CategoryIds(layout')
           /\ Len(layout'.categories) = Cardinality(kept)
           /\ \A i \in kept :
                 layout'.categories[Cardinality({j \in kept : j <= i})]
                     = layout.categories[i]
           /\ Len(layout'.layers) = Len(layout.layers)
           /\ \A l \in 1..Len(layout.layers) :
                 /\ layout'.layers[l].category_id =
                        IF layout.layers[l].category_id = C THEN None
                        ELSE layout.layers[l].category_id
                 /\ Len(layout'.layers[l].keys) = Len(layout.layers[l].keys)
           /\ \A slot \in KeySlots(layout) :
                 LET old == layout.layers[slot[1]].keys[slot[2]]
                     new == layout'.layers[slot[1]].keys[slot[2]]
                 IN /\ new.position = old.position
                    /\ new.keycode = old.keycode
                    /\ new.color_override = old.color_override
                    /\ new.category_id =
                           IF old.category_id = C THEN None ELSE old.category_id
    ]_vars

\* A deletion of "sym" has swept a key on each layer and layer 1, and left
\* the "nav" category and its key alone.
DeletedUsedCategory ==
    /\ action[1] = "delete"
    /\ CategoryIds(layout) = {"nav"}
    /\ layout.layers[2].category_id = None
    /\ KeyAt(layout, 0, Position(0, 1)) =
           KeyDefinition(Position(0, 1), "KC_B", "red", None)
    /\ KeyAt(layout, 1, Position(0, 1)) =
           KeyDefinition(Position(0, 1), "KC_B", "red", None)
    /\ KeyAt(layout, 0, Position(0, 0)) =
           KeyDefinition(Position(0, 0), "KC_A", None, "nav")

\* The paste set the claims describe: every clipboard position re-based by
\* (cursor - anchor) that is non-negative, fits in u8 and is valid.
Rebased(pos) ==
    <<pos[1] + selected_position[1] - clipboard.multi_content.anchor[1],
      pos[2] + selected_position[2] - clipboard.multi_content.anchor[2]>>

ClaimedPasteSet ==
    {p \in {Rebased(e[1]) : e \in Range(clipboard.multi_content.keys)} :
        /\ p[1] >= 0 /\ p[1] <= 255
        /\ p[2] >= 0 /\ p[2] <= 255
        /\ is_valid_position(mapping, p)}

ClaimedSource(p) ==
    (CHOOSE e \in Range(clipboard.multi_content.keys) : Rebased(e[1]) = p)[2]

\* A multi-key paste step, seen from the state before it.
MultiPasteStep == action'[1] = "paste" /\ clipboard.multi_content /= Nothing

\* The key a paste leaves at a slot: the source entry's content on a key of
\* the paste set, the old key elsewhere.
AfterPaste(slot) ==
    LET old == layout.layers[slot[1]].keys[slot[2]]
    IN IF slot[1] - 1 = current_layer /\ old.position \in ClaimedPasteSet
       THEN KeyDefinition(old.position,
                          ClaimedSource(old.position).keycode,
                          ClaimedSource(old.position).color_override,
                          ClaimedSource(old.position).category_id)
       ELSE old

\* C3: a multi-key paste overwrites exactly the keys of the current layer at
\* the re-based clipboard positions that are non-negative, fit in u8 and are
\* valid for the mapping; each receives the keycode, color override and
\* category of its source entry, and the paste step overwrites no other key
\* (after it, only the clearing of cut sources touches the layout).
PasteWritesRebasedKeys ==
    [][MultiPasteStep =>
        LET paste_targets == CurrentPasteTargets
            pasted == ApplyPastes(layout, current_layer, paste_targets)
        IN /\ {t[1] : t \in Range(paste_targets)} = ClaimedPasteSet
           /\ pasted.categories = layout.categories
           /\ layout'.categories = layout.categories
           /\ \A slot \in KeySlots(layout) :
                 /\ pasted.layers[slot[1]].keys[slot[2]] = AfterPaste(slot)
                 /\ (\/ ClaimedPasteSet = {}
                     \/ <<slot[1] - 1,
                          layout.layers[slot[1]].keys[slot[2]].position>>
                            \notin Range(clipboard.multi_cut_sources))
                    => layout'.layers[slot[1]].keys[slot[2]] =
                           IF ClaimedPasteSet = {}
                           THEN layout.layers[slot[1]].keys[slot[2]]
                           ELSE AfterPaste(slot)
    ]_vars

\* The block anchored at (0,0) with a second key at (0,1) was pasted at
\* (1,1): (1,2) is invalid, so only (1,1) was written.
PastedBlockAtOffset ==
    /\ action[1] = "paste"
    /\ error_message = None
    /\ clipboard.multi_content /= Nothing
    /\ clipboard.multi_content.anchor = Position(0, 0)
    /\ Len(clipboard.multi_content.keys) = 2
    /\ clipboard.multi_content.keys[2][1] = Position(0, 1)
    /\ selected_position = Position(1, 1)
    /\ clipboard.undo /= Nothing
    /\ Len(clipboard.undo.original_keys) = 1
    /\ clipboard.undo.original_keys[1][1] = Position(1, 1)
    /\ ContentOf(KeyAt(layout, current_layer, Position(1, 1))) =
           clipboard.multi_content.keys[1][2]
    /\ ContentOf(KeyAt(layout, current_layer, Position(0, 0))) =
           clipboard.multi_content.keys[1][2]
    /\ action[3]

\* C4: the cut operation leaves the layout unchanged; a multi-key paste
\* with an empty paste set reports 'No valid positions for paste' and leaves
\* the layout, the clipboard (undo snapshot and cut sources) and the dirty
\* flag as they were; a multi-key paste with a non-empty paste set turns
\* every cut source key into the transparent key and forgets the sources.
CutSourcesClearedOnlyByPaste ==
    [][/\ action'[1] = "cut" => layout' = layout /\ dirty' = dirty
       /\ (MultiPasteStep /\ ClaimedPasteSet = {}) =>
             /\ error_message' = "No valid positions for paste"
             /\ layout' = layout
             /\ clipboard' = clipboard
             /\ dirty' = dirty
       /\ (MultiPasteStep /\ ClaimedPasteSet /= {}) =>
             /\ clipboard'.multi_cut_sources = <<>>
             /\ \A src \in Range(clipboard.multi_cut_sources) :
                   KeyAt(layout, src[1], src[2]) /= Nothing
                       => ContentOf(KeyAt(layout', src[1], src[2])) = Transparent
    ]_vars

\* A paste of cut keys found no valid position: the cut sources are still
\* recorded and still hold their keys.
CutSurvivedInvalidPaste ==
    /\ action[1] = "paste"
    /\ error_message = "No valid positions for paste"
    /\ clipboard.multi_cut_sources /= <<>>
    /\ \E src \in Range(clipboard.multi_cut_sources) :
          /\ KeyAt(layout, src[1], src[2]) /= Nothing
          /\ KeyAt(layout, src[1], src[2]).keycode /= "KC_TRNS"
    /\ ~dirty

\* A paste that takes effect: it saves a snapshot and marks the layout dirty.
PasteTakesEffect ==
    /\ action'[1] = "paste"
    /\ IF clipboard.multi_content /= Nothing THEN ClaimedPasteSet /= {}
       ELSE clipboard.content /= Nothing /\ get_selected_key /= Nothing

\* The positions a paste that takes effect is about to overwrite.
OverwrittenByPaste ==
    IF clipboard.multi_content /= Nothing
    THEN {p \in ClaimedPasteSet : KeyAt(layout, current_layer, p) /= Nothing}
    ELSE {selected_position}

\* C5: undo is one level deep: a paste that takes effect leaves a snapshot of
\* its own targets only, whatever snapshot was there before; an undo-paste
\* with a snapshot changes no key outside the snapshot and consumes it; an
\* undo-paste without one, as the second of two undo-pastes in a row always
\* is, reports 'Nothing to undo' and leaves the layout unchanged.
UndoIsOneLevel ==
    [][/\ PasteTakesEffect =>
             /\ clipboard'.undo /= Nothing
             /\ {e[1] : e \in Range(clipboard'.undo.original_keys)}
                    = OverwrittenByPaste
       /\ (action'[1] = "undo" /\ clipboard.undo /= Nothing) =>
             /\ clipboard'.undo = Nothing
             /\ \A slot \in KeySlots(layout) :
                   LET old == layout.layers[slot[1]].keys[slot[2]]
                   IN (\/ slot[1] - 1 /= clipboard.undo.layer_index
                       \/ old.position \notin
                            {e[1] : e \in Range(clipboard.undo.original_keys)})
                      => layout'.layers[slot[1]].keys[slot[2]] = old
       /\ (action'[1] = "undo" /\ clipboard.undo = Nothing) =>
             /\ error_message' = "Nothing to undo"
             /\ layout' = layout
             /\ dirty' = dirty
       /\ (action[1] = "undo" /\ action'[1] = "undo") =>
             /\ error_message' = "Nothing to undo"
             /\ layout' = layout
    ]_vars

\* Two pastes took effect, one undo-paste restored the second, and another
\* undo-paste found nothing to undo: the first paste is still in the layout.
SecondUndoFoundNothing ==
    /\ action[1] = "undo"
    /\ error_message = "Nothing to undo"
    /\ pastes_pending >= 1
    /\ layout /= InitialLayout
    /\ clipboard.cut_source = NoSource
    /\ CategoryIds(layout) = {"nav", "sym"}

\* C6: a paste that takes effect captures, before it changes anything, the
\* keycode, color override and category of every key it is about to
\* overwrite, with the layer index; an undo-paste restores exactly those
\* values on that layer, wherever the cursor and the current layer are by
\* then, changes nothing else, and consumes the snapshot.
UndoRestoresSnapshot ==
    [][/\ PasteTakesEffect =>
             /\ clipboard'.undo /= Nothing
             /\ clipboard'.undo.layer_index = current_layer
             /\ Range(clipboard'.undo.original_keys) =
                    {<<p, ContentOf(KeyAt(layout, current_layer, p))>> :
                        p \in OverwrittenByPaste}
       /\ (action'[1] = "undo" /\ clipboard.undo /= Nothing) =>
             LET snapshot == clipboard.undo
                 saved(p) == (CHOOSE e \in Range(snapshot.original_keys) :
                                  e[1] = p)[2]
             IN /\ clipboard'.undo = Nothing
                /\ layout'.categories = layout.categories
                /\ \A l \in 1..Len(layout.layers) :
                      layout'.layers[l].category_id = layout.layers[l].category_id
                /\ \A slot \in KeySlots(layout) :
                      LET old == layout.layers[slot[1]].keys[slot[2]]
                      IN layout'.layers[slot[1]].keys[slot[2]] =
                           IF /\ slot[1] - 1 = snapshot.layer_index
                              /\ old.position \in
                                   {e[1] : e \in Range(snapshot.original_keys)}
                           THEN KeyDefinition(old.position,
                                              saved(old.position).keycode,
                                              saved(old.position).color_override,
                                              saved(old.position).category_id)
                           ELSE old
    ]_vars

\* An undo-paste changed keys back on a layer that is not the current one,
\* with the cursor away from the restored key.
UndoneOnOtherLayer ==
    /\ action[1] = "undo"
    /\ action[2] /= current_layer
    /\ action[3]
    /\ error_message = None
    /\ layout = InitialLayout
    /\ selected_position = Position(1, 1)
    /\ dirty

\* The number of error-severity messages of a report.
ErrorCount(report_) ==
    Cardinality({i \in 1..Len(report_) : report_[i] = "error"})

\* C7: Ctrl+G invokes the firmware generator only when the validation report
\* holds zero error-severity messages.  A step that invokes the generator is
\* a generation step whose report has no error; a generation step whose
\* report has an error sets the 'Validation failed' error and does not
\* invoke the generator; a generation step whose report has no error (only
\* warnings, or nothing) invokes the generator once.
GeneratorOnlyAfterValidReport ==
    [][ /\ generator_calls' /= generator_calls
            => /\ action'[1] = "generate"
               /\ ErrorCount(report') = 0
        /\ (action'[1] = "generate" /\ app_exit' = None)
            => IF ErrorCount(report') > 0
               THEN /\ error_message' = "Validation failed"
                    /\ generator_calls' = generator_calls
               ELSE generator_calls' = generator_calls + 1
        /\ (action'[1] = "generate" /\ app_exit' /= None)
            => generator_calls' = generator_calls ]_vars

\* C7 witness: after one generation that ran the generator, a second Ctrl+G
\* met a report with a warning and an error, and was refused.
RefusedAfterErrorReport ==
    /\ action[1] = "generate"
    /\ report = <<"warning", "error">>
    /\ error_message = "Validation failed"
    /\ generator_calls = 1
    /\ steps = 2

\* C8: a Ctrl+G step leaves the layout, the geometry, the mapping, the
\* clipboard and the dirty flag as they were, whether the validator fails,
\* the report is invalid, the generator runs, or the generator fails.
GenerationLeavesEditorState ==
    [][ action'[1] = "generate"
            => /\ layout' = layout
               /\ geometry' = geometry
               /\ mapping' = mapping
               /\ clipboard' = clipboard
               /\ dirty' = dirty ]_vars

\* C8 witness: the generator ran and failed on an edited, unsaved layout
\* with a key in the clipboard, after an earlier Ctrl+G.
GeneratedFromEditedLayout ==
    /\ action[1] = "generate"
    /\ error_message = "Generation failed"
    /\ generator_calls = 2
    /\ dirty
    /\ layout /= InitialLayout
    /\ has_content(clipboard)

\* The heading lines of a tap-dance document, in order.
Headings(docs_) == SelectSeq(docs_, LAMBDA line : line[1] = "### TD")

\* C9: the documentation export emits the i-th tap dance of
\* layout.tap_dances (counting from 0, in collection order) under the
\* heading TD(i), and an export repeated on an unchanged collection emits the
\* same headings.
TapDanceIndexIsPosition ==
    /\ [](docs_calls > 0 =>
            Headings(docs) =
                [i \in 1..Len(layout.tap_dances) |->
                    <<"### TD", i - 1, layout.tap_dances[i].name>>])
    /\ [][ (docs_calls' > 1 /\ layout'.tap_dances = layout.tap_dances)
               => Headings(docs') = Headings(docs) ]_vars

\* C9 witness: a collection of two tap dances exported twice.
ExportedTwice ==
    /\ action[1] = "docs"
    /\ docs_calls = 2
    /\ Len(layout.tap_dances) = 2
    /\ Len(Headings(docs)) = 2

\* A name the claim accepts: not empty, only ASCII alphanumerics and
\* underscores.
WellFormedName(str) ==
    /\ str /= <<>>
    /\ \A i \in 1..Len(str) : str[i] \in {"a", "_"}

\* C10: a step that lengthens the editor's list appends one tap dance with a
\* well-formed name and a non-empty single-tap code; Enter on the Name field
\* with an empty or malformed buffer, or on the SingleTap field with an empty
\* buffer, sets an error status, stays on the field and adds nothing.
EditorAddsOnlyValidTapDances ==
    [][ /\ editor'.tap_dances /= editor.tap_dances
            => /\ Len(editor'.tap_dances) = Len(editor.tap_dances) + 1
               /\ SubSeq(editor'.tap_dances, 1, Len(editor.tap_dances))
                      = editor.tap_dances
               /\ LET added == editor'.tap_dances[Len(editor'.tap_dances)]
                  IN /\ WellFormedName(added.name)
                     /\ added.single_tap /= <<>>
        /\ ( /\ action'[1] = "td_enter"
             /\ \/ /\ editor.edit_field = "Name"
                   /\ ~WellFormedName(editor.input_buffer)
                \/ /\ editor.edit_field = "SingleTap"
                   /\ editor.input_buffer = <<>> )
            => /\ editor'.status \in
                      {"Error: Name cannot be empty",
                       "Error: Name must be alphanumeric with underscores only",
                       "Error: Single tap keycode cannot be empty"}
               /\ editor'.edit_field = editor.edit_field
               /\ editor'.mode = "Edit"
               /\ editor'.tap_dances = editor.tap_dances ]_vars

\* C10 witness: Enter on the Hold field added a tap dance to a list that
\* already held one.
AddedTapDance ==
    /\ action[1] = "td_enter"
    /\ editor.mode = "Select"
    /\ editor.status = "Created tap dance"
    /\ Len(layout.tap_dances) = 1
    /\ Len(editor.tap_dances) = 2
    /\ editor.selected = 1

\* C11: no two entries of the tap-dance editor's list have the same name,
\* after any sequence of create operations on a layout whose tap-dance names
\* are unique.
UniqueTapDanceNames ==
    \A i, j \in 1..Len(editor.tap_dances) :
        editor.tap_dances[i].name = editor.tap_dances[j].name => i = j

\* The id the claim derives from a name: lowercased, spaces replaced by
\* hyphens.
RECURSIVE ClaimedId(_)
ClaimedId(name) ==
    IF name = <<>> THEN ""
    ELSE (CASE Head(name) = "A" -> "a"
            [] Head(name) = " " -> "-"
            [] OTHER -> Head(name)) \o ClaimedId(Tail(name))

\* C12: Enter on a new category name whose derived id is the id of an
\* existing category sets the error 'Category with this ID already exists',
\* leaves the manager in CreatingName mode, opens no colour picker and leaves
\* layout.categories unchanged; and layout.categories never holds two
\* categories with one id.
DuplicateCategoryIdRejected ==
    /\ [][ ( /\ action'[1] = "create"
             /\ ClaimedId(manager.input) \in CategoryIds(layout) )
            => /\ error_message' = "Category with this ID already exists"
               /\ manager'.mode = "CreatingName"
               /\ active_popup' = "CategoryManager"
               /\ color_picker_context' = color_picker_context
               /\ layout'.categories = layout.categories ]_vars
    /\ [](\A i, j \in 1..Len(layout.categories) :
             layout.categories[i].id = layout.categories[j].id => i = j)

\* C12 witness: the name "A a", whose id "a-a" is taken, was refused.
RefusedTakenName ==
    /\ action[1] = "create"
    /\ manager.input = <<"A", " ", "a">>
    /\ "a-a" \in CategoryIds(layout)
    /\ error_message = "Category with this ID already exists"
    /\ manager.mode = "CreatingName"
    /\ active_popup = "CategoryManager"

\* C13: inspect reports 'three_way' for a tap dance with a hold code,
\* 'two_way' for one with a double-tap code and no hold code, and 'single'
\* for one with neither, whatever the combination; the kind is computed from
\* the two optional fields and is no field of the stored tap dance.
KindDerivedFromOptionalFields ==
    /\ \A i \in 1..Len(layout.tap_dances) :
          DOMAIN layout.tap_dances[i]
              = {"name", "single_tap", "double_tap", "hold"}
    /\ action[1] = "inspect"
          => /\ Len(inspected) = Len(layout.tap_dances)
             /\ \A i \in 1..Len(inspected) :
                   LET td == layout.tap_dances[i]
                       has_double == td.double_tap /= <<>>
                       has_hold == td.hold /= <<>>
                   IN /\ has_hold => inspected[i].td_type = "three_way"
                      /\ (has_double /\ ~has_hold)
                             => inspected[i].td_type = "two_way"
                      /\ (~has_double /\ ~has_hold)
                             => inspected[i].td_type = "single"

\* C13 witness: inspect ran on a tap dance with a double tap and a hold and
\* on one with a hold only.
InspectedThreeWayKinds ==
    /\ action[1] = "inspect"
    /\ Len(inspected) = 2
    /\ inspected[1].double_tap /= NoString /\ inspected[1].hold /= NoString
    /\ inspected[2].double_tap = NoString /\ inspected[2].hold /= NoString
    /\ inspected[1].td_type = "three_way"
    /\ inspected[2].td_type = "three_way"

\* C14: no two keys of a geometry share a matrix position and no two share
\* an LED index, so that get_key_by_matrix and get_key_by_led identify at
\* most one key.
UniqueMatrixAndLed ==
    \A i, j \in 1..Len(geometry.keys) :
        /\ geometry.keys[i].matrix_position = geometry.keys[j].matrix_position
               => i = j
        /\ geometry.keys[i].led_index = geometry.keys[j].led_index => i = j

\* C15: every key's matrix position (row, col) of a geometry has
\* row < matrix_rows and col < matrix_cols.
MatrixPositionsInBounds ==
    \A i \in 1..Len(geometry.keys) :
        /\ geometry.keys[i].matrix_position[1] < geometry.matrix_rows
        /\ geometry.keys[i].matrix_position[2] < geometry.matrix_cols

\* The names of the steps the editor main loop takes.
EditorSteps == {"move", "copy", "paste", "quit", "generate"}

\* C16: when the selected layout has no layout variant, or building its
\* geometry and mapping fails, the selecting step itself hands the failure
\* back: the picker has returned with the error, no AppState was created,
\* run_tui was never entered, and no editor step ever follows.
PickerFailureAbortsSession ==
    /\ [](session.outcome \in {"variant", "geometry"}
             => /\ session.stage = "returned"
                /\ session.result \notin {None, "ok"}
                /\ ~session.app_state
                /\ session.tui_runs = 0
                /\ action[1] = "picker_selected")
    /\ [][action'[1] \in EditorSteps
             => session.outcome = "run" /\ session.tui_runs = 1]_vars

\* C16 witness: the picker idled, then a layout without a variant was
\* selected.
SelectedLayoutWithoutVariant ==
    /\ session.outcome = "variant"
    /\ session.selected = "split.md"
    /\ session.result = "Layout variant not specified in layout metadata"
    /\ session.stage = "returned"
    /\ steps = 2

\* C17: every iteration of run_tui reaches the poll of the build state (or
\* leaves the loop) once an event has made event::poll return, whatever kind
\* of event it was and without any further input.
BuildPolledEveryIteration ==
    (run_loop.pc \in {"read", "read_again"})
        ~> (run_loop.pc \in {"poll_build", "done"})

\* The logical positions a geometry of MaxKeys keys can reach, and one row
\* and one column beyond them.
GridPositions == {<<row, col>> : row \in 0..MaxKeys, col \in 0..MaxKeys}

KeymapOrderedByLayoutIndex ==
    action[1] = "generate_keymap" =>
        \A l \in 1..Len(layout.layers), i \in 1..Len(geometry.keys) :
            LET key == geometry.keys[i]
                slot == Cardinality(
                    {j \in 1..Len(geometry.keys) :
                        geometry.keys[j].layout_index < key.layout_index}) + 1
                keys == layout.layers[l].keys
                bound == {keys[j].keycode : j \in
                            {m \in 1..Len(keys) :
                                keys[m].position
                                    = position_for(mapping, key)}}
            IN  /\ Len(keymap[l]) = Len(geometry.keys)
                /\ keymap[l][slot] \in
                      (IF bound = {} THEN {"KC_TRNS"} ELSE bound)

\* A keymap generated for the mirrored board, after an edit, from a layer
\* whose KeyDefinitions were created last row first: the array starts with
\* the key on the right.
GeneratedMirroredKeymap ==
    /\ action[1] = "generate_keymap"
    /\ geometry = MirroredGeometry
    /\ dirty
    /\ layout.layers[1].keys[1].position = <<1, 1>>
    /\ keymap[1] = <<"KC_B", "KC_A", "KC_TRNS", "KC_TRNS">>
    /\ Len(keymap[2]) = 4

DanglingLayerSwitches ==
    UNION {{<<l - 1, layout.layers[l].keys[k].position>> :
              k \in {m \in 1..Len(layout.layers[l].keys) :
                        layer_switch_target(layout.layers[l].keys[m].keycode)
                            >= Len(layout.layers)}} :
           l \in 1..Len(layout.layers)}

\* C21: the validator's report holds, for every key with a layer-switch code
\* whose layer is not below the layer count, a message of error severity
\* located at that key's layer and position; and a Ctrl+G on such a layout
\* leaves an invalid report and the generator uncalled.
DanglingLayerSwitchReported ==
    /\ [](\A at \in DanglingLayerSwitches :
             \E i \in 1..Len(validate_firmware(layout, mapping)) :
                 LET message == validate_firmware(layout, mapping)[i]
                 IN  /\ message.severity = "error"
                     /\ message.layer = at[1]
                     /\ message.position = at[2])
    /\ [][(action'[1] = "validate" /\ DanglingLayerSwitches /= {})
            => /\ \E i \in 1..Len(report') : report'[i] = "error"
               /\ generator_calls' = generator_calls
               /\ error_message' = "Validation failed"]_vars

\* A Ctrl+G after the dangling layer switch has been pasted onto layer 1 as
\* well: two errors, no generator call.
RefusedDanglingLayerSwitch ==
    /\ action[1] = "validate"
    /\ DanglingLayerSwitches = {<<0, <<0, 1>>>>, <<1, <<0, 1>>>>}
    /\ report = <<"error", "error">>
    /\ generator_calls = 0
    /\ dirty

\* The last command was given a value it does not know: an inspect section
\* outside the five, or a keycode category the database does not have.
InvalidValueGiven ==
    \/ /\ cli.command = "inspect"
       /\ cli.value \notin {"metadata", "layers", "categories", "tap-dances",
                             "settings"}
    \/ /\ cli.command = "keycodes"
       /\ cli.value \notin {None, "basic", "navigation"}

Spawning == {c \in Calls : backend.pc[c] \in {"locked", "spawned"}}

\* What holds of the handle in every state: one call at most is between the
\* lock and the end of start_backend, it is the one that has the lock, no
\* handle is there meanwhile, and a handle is one of a process that runs,
\* with the port it was spawned with.
OneSpawnAtATime ==
    /\ Cardinality(Spawning) <= 1
    /\ \A c \in Spawning : backend.lock = c /\ backend.handle = <<>>
    /\ backend.handle /= <<>> =>
         /\ Len(backend.handle) = 1
         /\ backend.handle[1].child \in backend.processes
         /\ backend.handle[1].port
                = find_available_port(backend.handle[1].child)

\* What holds of every step: a process is spawned only with no handle
\* there, a handle is never replaced by another, and start_backend with a
\* handle there returns "Backend already running" and spawns nothing.
SpawnsOnlyWithoutHandle ==
    /\ backend'.spawned /= backend.spawned =>
         /\ backend'.spawned = backend.spawned + 1
         /\ backend.handle = <<>>
         /\ backend'.handle = <<>>
    /\ (backend'.handle /= backend.handle /\ backend'.handle /= <<>>)
         => backend.handle = <<>>
    /\ (action'[1] = "start_backend" /\ backend.handle /= <<>>) =>
         /\ backend'.reply.message = "Backend already running"
         /\ backend'.spawned = backend.spawned
         /\ backend'.processes = backend.processes
         /\ backend'.handle = backend.handle
         /\ backend'.lock = backend.lock

RunningFromStartToStop ==
    [][LET name == action'[1]
           none == backend.handle = <<>>
           none_ == backend'.handle = <<>>
       IN  /\ (name = "backend_ready" /\ backend'.reply.ok) =>
                 /\ ~none_
                 /\ backend'.reply.message = "Backend started on port "
                        \o ToString(backend'.handle[1].port)
           /\ (name \in {"backend_ready", "spawn_backend"}
                  /\ ~backend'.reply.ok /\ backend'.lock = 0) => none_
           /\ (none /\ ~none_) =>
                 name = "backend_ready" /\ backend'.reply.ok
           /\ (~none /\ none_) => name \in {"stop_backend", "exit"}
           /\ (~none /\ ~none_) => backend'.handle = backend.handle
           /\ name = "is_backend_running" =>
                 /\ backend'.reply.running = ~none
                 /\ backend'.handle = backend.handle
           /\ name = "get_backend_url" =>
                 /\ backend'.reply.url =
                        IF none THEN None
                        ELSE "http://127.0.0.1:"
                                 \o ToString(backend.handle[1].port)
                 /\ backend'.handle = backend.handle
           /\ (name = "stop_backend" /\ none) =>
                 /\ backend'.reply.message = "Backend not running"
                 /\ backend'.processes = backend.processes
                 /\ backend'.spawned = backend.spawned
                 /\ none_]_vars

\* The URL of a backend that was started after the first one had been
\* stopped.
UrlOfRestartedBackend ==
    /\ action[1] = "get_backend_url"
    /\ backend.reply.url = "http://127.0.0.1:49154"
    /\ backend.handle /= <<>>
    /\ backend.processes = {2}

\* C25: the process of the handle that is held when the window is asked to
\* close is terminated in the end.
CloseTerminatesBackend ==
    \A p \in 1..MaxSpawns :
        (/\ backend.closed
         /\ backend.handle /= <<>>
         /\ backend.handle[1].child = p) ~> (p \notin backend.processes)

\* C26: Ctrl+L in the main UI never moves the selected position; with a
\* build state it shows the build log when it is hidden and hides it when
\* it is shown, and with none it sets the error "No build active".
CtrlLTogglesBuildLog ==
    [][action'[1] = "ctrl_l" =>
          /\ selected_position' = selected_position
          /\ IF build_state /= Nothing
             THEN /\ build_log_state'.visible = ~build_log_state.visible
                  /\ active_popup' = IF build_log_state.visible THEN None
                                     ELSE "BuildLog"
             ELSE error_message' = "No build active"]_vars

\* C27: one firmware build at most runs at a time: the build key while a
\* build runs sets "Build already in progress" and leaves the build state
\* as it is, the build key with no QMK path sets its error and leaves the
\* build state as it is, none included, and a build starts only from the
\* build key with a path and no build running.
OneBuildAtATime ==
    [][LET building == build_state /= Nothing /\ build_state.building
       IN  /\ (action'[1] = "build" /\ building) =>
                 /\ error_message' = "Build already in progress"
                 /\ build_state' = build_state
                 /\ app_exit' = app_exit
           /\ action'[1] = "build_no_path" =>
                 /\ error_message' = "QMK firmware path not configured"
                 /\ build_state' = build_state
                 /\ app_exit' = app_exit
           /\ (build_state' /= build_state /\ build_state'.building) =>
                 /\ action'[1] \in {"build", "build_output"}
                 /\ action'[1] = "build" => ~building
                 /\ action'[1] = "build_output" => building]_vars

\* The build key while a build runs that has written a line already.
RefusedSecondBuild ==
    /\ action[1] = "build"
    /\ error_message = "Build already in progress"
    /\ build_state /= Nothing
    /\ build_state.building
    /\ build_state.channel > 0

\* C28: the quit key quits at once only when the layout is clean; when it
\* is dirty the prompt opens and the application goes on; Esc in the prompt
\* closes it and leaves the layout, its file, the dirty flag and the exit
\* as they are.
QuitOnlyWhenClean ==
    [][/\ action'[1] = "quit" =>
              IF dirty
              THEN /\ active_popup' = "UnsavedChangesPrompt"
                   /\ app_exit' = None
              ELSE app_exit' = "quit"
       /\ action'[1] = "prompt_Esc" =>
              /\ active_popup' = None
              /\ layout' = layout
              /\ layout_file' = layout_file
              /\ dirty' = dirty
              /\ app_exit' = None]_vars

\* Back in the editor after Esc in the prompt, the changes still unsaved.
BackToEditingUnsaved ==
    /\ action[1] = "prompt_Esc"
    /\ active_popup = None
    /\ dirty
    /\ layout /= layout_file
    /\ app_exit = None

\* C29: whenever 's' in the prompt makes the application quit, the layout
\* is in its file and the dirty flag is false.
SaveAndQuitSaves ==
    [][(action'[1] = "prompt_s" /\ app_exit' = "quit") =>
          /\ layout_file' = layout'
          /\ ~dirty']_vars

\* C30: the dirty flag is true whenever the layout is not the one of its
\* file; a handler that changes the layout sets it, and nothing but a save
\* that has written the layout clears it.
DirtyWhenChanged ==
    /\ [](layout /= layout_file => dirty)
    /\ [][/\ layout' /= layout => dirty'
          /\ (dirty /\ ~dirty') =>
                /\ action'[1] = "save"
                /\ layout_file' = layout']_vars

\* C31: a single-key paste of a cut key with no key at the selected
\* position of the current layer leaves the whole layout as it is, the cut
\* source included.
CutSourceKeptWithoutTarget ==
    [][(/\ action'[1] = "paste"
        /\ has_content(clipboard)
        /\ ~is_multi(clipboard)
        /\ clipboard.cut_source /= NoSource
        /\ get_selected_key = Nothing)
           => layout' = layout]_vars

\* The paste set of the paste that is taking place, single-key or multi-key:
\* the positions of the current layer that have a key, each with the
\* clipboard entry written to it.
WrittenTargets ==
    LET targets == IF is_multi(clipboard) THEN CurrentPasteTargets
                   ELSE << <<selected_position, clipboard.content>> >>
    IN  {targets[i] : i \in {j \in 1..Len(targets) :
            KeyAt(layout, current_layer, targets[j][1]) /= Nothing}}

\* C32: after a paste of cut keys every paste target holds the keycode,
\* color override and category of its clipboard entry, also when it is a
\* cut source itself.
PastedKeysSurviveClearing ==
    [][(/\ action'[1] = "paste"
        /\ has_content(clipboard)
        /\ \/ clipboard.cut_source /= NoSource
           \/ clipboard.multi_cut_sources /= <<>>)
           => \A target \in WrittenTargets :
                 ContentOf(KeyAt(layout', current_layer, target[1]))
                     = target[2]]_vars

\* C33: undo-paste right after a paste gives the layout of before the
\* paste: the paste that changes the layout leaves a snapshot, and the keys
\* undo-paste restores from it make the layout the one the paste found.
UndoReturnsLayoutBeforePaste ==
    [][(action'[1] = "paste" /\ layout' /= layout) =>
          /\ clipboard'.undo /= Nothing
          /\ RestoreKeys(layout', clipboard'.undo.layer_index,
                         clipboard'.undo.original_keys) = layout]_vars

\* C34: after any Tab and Shift+Tab the current layer is one of the
\* layout's, and with any number of layers, none included, Tab neither
\* panics nor takes the current layer past the layers there are.
CurrentLayerInRange ==
    /\ [](Len(layout.layers) > 0 =>
             current_layer \in 0..(Len(layout.layers) - 1))
    /\ [](app_exit /= "panic")
    /\ [][action'[1] = "layer" =>
             \/ current_layer' = current_layer
             \/ current_layer' \in 0..(Len(layout.layers) - 1)]_vars

\* The category_id of every layer and of every key of a layout, in order.
References(layout_) ==
    [l \in 1..Len(layout_.layers) |->
        <<layout_.layers[l].category_id,
          [k \in 1..Len(layout_.layers[l].keys) |->
              layout_.layers[l].keys[k].category_id]>>]

\* C35: renaming a category changes only its display name: the id and the
\* colour of every category, the number and order of the categories and
\* the category_id of every key and layer are as before, and no category
\* but the renamed one changes; a name set_name rejects leaves the layout
\* unchanged, does not set dirty and keeps the manager in Renaming mode.
RenameChangesOnlyName ==
    [][ action'[1] = "rename"
        => /\ Len(layout'.categories) = Len(layout.categories)
           /\ \A i \in 1..Len(layout.categories) :
                 /\ layout'.categories[i].id = layout.categories[i].id
                 /\ layout'.categories[i].color = layout.categories[i].color
                 /\ layout.categories[i].id /= manager.category_id
                       => layout'.categories[i] = layout.categories[i]
           /\ References(layout') = References(layout)
           /\ layout'.layers = layout.layers
           /\ layout'.tap_dances = layout.tap_dances
           /\ error_message' = "Invalid name"
                 => /\ layout' = layout
                    /\ dirty' = dirty
                    /\ manager' = manager
                    /\ manager'.mode = "Renaming" ]_vars

\* C35 witness: the category "a-a", which layer 0 refers to, was renamed
\* from "A a" to "A aa"; it kept its id and its colour, and the layer its
\* reference.
RenamedReferencedCategory ==
    /\ action = <<"rename", 0, TRUE>>
    /\ layout.categories[2] = Category("a-a", "A aa", "green")
    /\ layout.layers[1].category_id = "a-a"
    /\ dirty
    /\ manager.mode = "Browsing"

\* C35 witness: a name was refused; nothing is marked unsaved and the
\* manager still asks for the name.
RefusedName ==
    /\ action[1] = "rename"
    /\ error_message = "Invalid name"
    /\ manager.mode = "Renaming"
    /\ manager.input = <<>>
    /\ ~dirty
    /\ layout = CategoryLayout

====
